---- MODULE Spec2Model ----
(***************************************************************************)
(* Blue/green deployment orchestration of reflow: DeployTest (staging,     *)
(* environment "test") and ApproveProd (production, environment "prod")    *)
(* for one project, against the container daemon, the project state file   *)
(* and the nginx site configuration files; and the maintenance commands    *)
(* cleanup (with image pruning), destroy and init.                         *)
(***************************************************************************)
EXTENDS Integers, FiniteSets, Sequences, TLC

VARIABLES
    containers,   \* the daemon's managed containers of the project (running or stopped)
    images,       \* commits c for which the image <project>:<c> exists locally
    stateFile,    \* apps/<project>/state.json
    nginxConf,    \* nginx/conf.d/<project>.<env>.conf, per environment
    recipeFile,   \* TRUE while repo/.reflow-dockerfile exists
    wf,           \* per environment, the locals of its workflow (DeployTest / ApproveProd)
    launches,     \* number of container ids the daemon has handed out
    hist,         \* history of successful deployments, per environment
    imageStore,   \* the daemon's images of the project as ImageList reports them
    op,           \* the last maintenance command (cleanup, prune, destroy, init) and its result
    platform,     \* base directory, shared network and proxy container of the installation
    deploymentsLog, \* apps/<project>/deployments.log, one event per line
    repo,         \* apps/<project>/repo, the local clone, and the tip of its remote
    requests,     \* number of deploy and approve requests the API server has taken up
    domainCall,   \* the arguments and the result of a call of GetEffectiveDomain
    globalConfig, \* config.yaml, the loadedGlobalConfig cache and the last load
    historyCall,  \* the arguments and the result of a call of ListHistory
    logCalls      \* two concurrent calls of LogEvent, logMutex and the log's bytes

\* What the maintenance commands act on besides containers and state file.
maint == <<imageStore, op, platform>>

\* The project's files besides state.json and the site configurations.
projectDir == <<deploymentsLog, repo>>

\* Calls into the config and deployment packages next to the workflows.
library == <<domainCall, globalConfig, historyCall, logCalls>>

\* What the workflows and the maintenance commands act on.
installation ==
    <<containers, images, stateFile, nginxConf, recipeFile, wf, launches, hist,
      imageStore, op, platform, deploymentsLog, repo, requests>>

vars == <<containers, images, stateFile, nginxConf, recipeFile, wf, launches, hist,
          imageStore, op, platform, deploymentsLog, repo, requests, domainCall,
          globalConfig, historyCall, logCalls>>

-----------------------------------------------------------------------------
\* Bounds of the model.

\* Number of containers the daemon creates in one behaviour.
MaxLaunches == 3

\* Number of deploy and approve requests the API server takes up in one behaviour.
MaxRequests == 3

\* Number of commits on the default branch of the remote, numbered in order.
MaxCommits == 4

-----------------------------------------------------------------------------
\* Program constants.

\* healthTimeout := 60 * time.Second
HealthTimeout == 60
\* healthInterval := 5 * time.Second
HealthInterval == 5

Envs == {"test", "prod"}

\* A commit hash is its first seven characters followed by the rest.
NoCommit == <<"", "">>
Commits == {<<"abc1234", "x">>, <<"def5678", "y">>}

\* commitHash[:7]
Short(c) == c[1]

\* EnvironmentState{} and ProjectState{}: all fields empty.
EmptyEnvState ==
    [activeSlot |-> "", activeCommit |-> NoCommit,
     inactiveSlot |-> "", pendingCommit |-> NoCommit]

EmptyProjectState == [test |-> EmptyEnvState, prod |-> EmptyEnvState]

\* A state file holds a ProjectState, or bytes that do not unmarshal.
ReadableFile(s) == [ok |-> TRUE, state |-> s]
CorruptFile == [ok |-> FALSE, state |-> EmptyProjectState]

\* A site configuration file: absent, or the rendered template.
NoConf == [present |-> FALSE, slot |-> "", upstream |-> <<>>]

\* No container id ("").
NoId == 0

\* LoadProjectState: the state and whether the read and unmarshal succeeded.
LoadProjectState == [err |-> ~stateFile.ok, state |-> stateFile.state]

\* fmt.Sprintf("%s-<env>-%s-%s", project, inactiveSlot, commitHash[:7])
ContainerName(e, slot, c) == <<e, slot, Short(c)>>

\* Slot choice of both workflows: "blue" active => "green", otherwise "blue".
InactiveSlotOf(activeSlot) == IF activeSlot = "blue" THEN "green" ELSE "blue"

\* FindContainersByLabels(project, env, slot): the filter reflow.managed=true
\* is always added.
FindBySlot(e, slot) == {c \in containers : c.managed /\ c.env = e /\ c.slot = slot}

\* What a workflow found when it started (kept for the properties only).
NoSnapshot ==
    [containers |-> {}, state |-> CorruptFile, conf |-> [e \in Envs |-> NoConf],
     images |-> {}, activeId |-> NoId, log |-> <<>>]

IdleWf ==
    [pc |-> "idle", projState |-> EmptyProjectState, commit |-> NoCommit,
     inactiveSlot |-> "", newContainerID |-> NoId, containerName |-> <<>>,
     err |-> "", dockerfilePath |-> FALSE, probed |-> FALSE, reloaded |-> FALSE,
     cancelledAt |-> "", elapsed |-> 0, pre |-> NoSnapshot]

\* LogEvent: the event is marshalled and appended as one line; when the
\* directory, the open or the write fails the error is logged and the file
\* is left as it was.  Neither DeployTest nor ApproveProd calls it.
LogEvent(log, event, written) == IF written THEN Append(log, event) ELSE log

\* No call of DeployTest has resolved a revision in the clone yet.
NoResolve == [rev |-> [name |-> "unset", hash |-> 0], hash |-> 0, err |-> ""]

\* The clone right after CloneRepo when the remote's default branch is at
\* commit c: the remote-tracking ref and the local branch are at c, and HEAD
\* is attached to the local branch (detached = 0).
ClonedRepo(c) ==
    [remote |-> c, origin |-> c, branch |-> c, detached |-> 0, last |-> NoResolve]

\* A domain name, as its parts; <<>> is the empty string.
NoDomain == <<>>

\* GetEffectiveDomain has not been called.
NoDomainCall ==
    [env |-> "", defined |-> FALSE, override |-> NoDomain, domain |-> NoDomain,
     defaultDomain |-> NoDomain, called |-> FALSE, result |-> NoDomain, err |-> ""]

\* The global configuration.  config.yaml is missing, empty, or holds a
\* GlobalConfig; loadedGlobalConfig is the process-wide cache.
ConfigFile(kind, defaultDomain, debug) ==
    [kind |-> kind, defaultDomain |-> defaultDomain, debug |-> debug]

MissingConfigFile == ConfigFile("missing", NoDomain, FALSE)

GlobalConfigs ==
    {ConfigFile("yaml", d, g) :
        d \in {<<"localhost">>, <<"yourdomain.com">>, <<"a.example">>, <<"b.example">>},
        g \in BOOLEAN}

ConfigFiles == GlobalConfigs \cup {MissingConfigFile, ConfigFile("empty", NoDomain, FALSE)}

\* A process that has not loaded or written the global configuration, over a
\* base path without config.yaml.
NoGlobalConfig ==
    [file |-> MissingConfigFile, loaded |-> MissingConfigFile, cache |-> MissingConfigFile,
     written |-> MissingConfigFile, err |-> FALSE, loadedSinceWrite |-> FALSE]

\* ListHistory has not been called.
NoHistoryCall ==
    [lines |-> <<>>, limitStr |-> [kind |-> "empty", value |-> 0],
     offsetStr |-> [kind |-> "empty", value |-> 0], envFilter |-> "", outcomeFilter |-> "",
     called |-> FALSE, events |-> <<>>, panicked |-> FALSE]

\* No call of LogEvent is under way, logMutex is free and the log is empty.
NoLogCalls ==
    [file |-> <<>>, holder |-> 0, pc |-> [c \in 1..MaxRequests |-> "idle"]]

IdleLibrary ==
    /\ domainCall = NoDomainCall
    /\ globalConfig = NoGlobalConfig
    /\ historyCall = NoHistoryCall
    /\ logCalls = NoLogCalls

\* No maintenance command has run.
NoPlatform ==
    [baseDir |-> FALSE, globalCfg |-> "absent", defaultConf |-> "absent",
     network |-> FALSE, proxy |-> "absent"]

NoOp ==
    [name |-> "", env |-> "", err |-> FALSE, containers |-> {}, imageStore |-> {},
     platform |-> NoPlatform, prev |-> "", faults |-> {}, failed |-> {},
     reported |-> {}, cleanedCount |-> 0, cleanupErrors |-> {}]

\* The installation after 'reflow init': the directories, config.yaml,
\* 00-default.conf, the network reflow-network and the running proxy
\* container reflow-nginx exist.
InitializedPlatform ==
    [baseDir |-> TRUE, globalCfg |-> "default", defaultConf |-> "default",
     network |-> TRUE, proxy |-> "running"]

InitInstallation ==
    /\ containers = {}
    /\ images = {}
    /\ stateFile = ReadableFile(EmptyProjectState)
    /\ nginxConf = [e \in Envs |-> NoConf]
    /\ recipeFile = FALSE
    /\ wf = [e \in Envs |-> IdleWf]
    /\ launches = 0
    /\ hist = [e \in Envs |-> [slot |-> "", id |-> NoId, prevSlot |-> "",
                                prevId |-> NoId, count |-> 0]]
    /\ imageStore = {}
    /\ op = NoOp
    /\ platform = InitializedPlatform
    /\ deploymentsLog = <<>>
    /\ repo = ClonedRepo(1)
    /\ requests = 0

\* The installation after 'reflow init' with no project deployed yet.
Init ==
    /\ InitInstallation
    /\ IdleLibrary

-----------------------------------------------------------------------------
\* Steps of the workflows.  Every return statement leads to pc = "defer",
\* where the deferred function of the workflow runs.

NoWorkflowInFlight == \A e \in Envs : wf[e].pc = "idle"

\* The locals of a workflow that starts now.
StartedWf(e) ==
    [IdleWf EXCEPT !.pre = [containers |-> containers, state |-> stateFile,
                            conf |-> nginxConf, images |-> images,
                            activeId |-> hist[e].id, log |-> deploymentsLog]]

\* ctx.Done() of the workflow's context is closed.  cancelledAt is the step
\* the workflow was at when its caller cancelled the context.
CtxDone(w) == w.cancelledAt # ""

\* Results of a call that takes ctx (daemon, build): it succeeds or fails; it
\* fails when the context is already done.
CtxCall(w) == IF CtxDone(w) THEN {FALSE} ELSE BOOLEAN

\* return fmt.Errorf(...): err is set and the deferred function runs next.
Returned(w, err) == [w EXCEPT !.pc = "defer", !.err = err]

\* DeployTest steps 1-4: load configs, resolve and check out the commit,
\* identify the slots.  A state file that cannot be loaded is taken as empty.
DeployTestCalled ==
    /\ launches < MaxLaunches
    /\ \E cfgOk \in BOOLEAN, gitOk \in BOOLEAN, c \in Commits :
         LET w0 == StartedWf("test")
             ld == LoadProjectState
             st == IF ld.err THEN EmptyProjectState ELSE ld.state
             w1 == [w0 EXCEPT !.projState = st]
         IN  wf' = [wf EXCEPT !["test"] =
                 IF ~cfgOk THEN Returned(w0, "config")
                 ELSE IF ~gitOk THEN Returned(w1, "git")
                 ELSE [w1 EXCEPT !.pc = "build", !.commit = c,
                          !.inactiveSlot = InactiveSlotOf(st.test.activeSlot)]]
    /\ UNCHANGED <<containers, images, stateFile, nginxConf, recipeFile, launches, hist, maint, projectDir, library>>

\* 'reflow deploy': the command runs DeployTest and exits; the operator runs
\* one command at a time.
DeployStart ==
    /\ NoWorkflowInFlight
    /\ DeployTestCalled
    /\ UNCHANGED requests

\* Mutant of DeployBuild: the inactive slot is purged before the image is
\* built, so a failed build returns with the old containers already removed.
DeployBuildAfterPurge ==
    /\ wf["test"].pc = "build"
    /\ \E genOk \in BOOLEAN, writeOk \in BOOLEAN, buildOk \in CtxCall(wf["test"]),
          partial \in BOOLEAN :
         LET w == wf["test"] IN
         IF ~genOk THEN
             /\ wf' = [wf EXCEPT !["test"] = Returned(w, "recipe")]
             /\ UNCHANGED <<recipeFile, images, containers>>
         ELSE IF ~writeOk THEN
             /\ wf' = [wf EXCEPT !["test"] =
                    Returned([w EXCEPT !.dockerfilePath = TRUE], "recipe_write")]
             /\ recipeFile' = (recipeFile \/ partial)
             /\ UNCHANGED <<images, containers>>
         ELSE IF ~buildOk THEN
             /\ wf' = [wf EXCEPT !["test"] =
                    Returned([w EXCEPT !.dockerfilePath = TRUE], "build")]
             /\ recipeFile' = TRUE
             /\ containers' = containers \ FindBySlot("test", w.inactiveSlot)
             /\ UNCHANGED images
         ELSE
             /\ wf' = [wf EXCEPT !["test"] =
                    [w EXCEPT !.dockerfilePath = TRUE, !.pc = "purge"]]
             /\ recipeFile' = TRUE
             /\ images' = images \cup {w.commit}
             /\ UNCHANGED containers
    /\ UNCHANGED <<stateFile, nginxConf, launches, hist, maint, projectDir, requests, library>>

\* DeployTest step 5: materialize the recipe file and build <project>:<commit>.
DeployBuild ==
    /\ wf["test"].pc = "build"
    /\ \E genOk \in BOOLEAN, writeOk \in BOOLEAN, buildOk \in CtxCall(wf["test"]),
          partial \in BOOLEAN :
         LET w == wf["test"] IN
         IF ~genOk THEN
             /\ wf' = [wf EXCEPT !["test"] = Returned(w, "recipe")]
             /\ UNCHANGED <<recipeFile, images>>
         ELSE IF ~writeOk THEN
             /\ wf' = [wf EXCEPT !["test"] =
                    Returned([w EXCEPT !.dockerfilePath = TRUE], "recipe_write")]
             /\ recipeFile' = (recipeFile \/ partial)
             /\ UNCHANGED images
         ELSE IF ~buildOk THEN
             /\ wf' = [wf EXCEPT !["test"] =
                    Returned([w EXCEPT !.dockerfilePath = TRUE], "build")]
             /\ recipeFile' = TRUE
             /\ UNCHANGED images
         ELSE
             /\ wf' = [wf EXCEPT !["test"] =
                    [w EXCEPT !.dockerfilePath = TRUE, !.pc = "purge"]]
             /\ recipeFile' = TRUE
             /\ images' = images \cup {w.commit}
    /\ UNCHANGED <<containers, stateFile, nginxConf, launches, hist, maint, projectDir, requests, library>>

\* Mutant of ApprovedCommit: the commit of some image found locally is
\* promoted, whatever the 'test' state names.
ApprovedCommitAnyImage(st) ==
    IF images = {} THEN NoCommit ELSE CHOOSE c \in images : TRUE

\* The approved commit: the commit active in 'test' in the loaded state.
ApprovedCommit(st) == st.test.activeCommit

\* ApproveProd step 2: is there an active 'test' deployment to approve?
TestDeployed(st) == st.test.activeCommit # NoCommit /\ st.test.activeSlot # ""

\* FindImage: the image with that tag, if it exists locally.
FindImage(c) == c \in images

\* Mutant of ApproveCheck: the checks of the 'test' state and of the image
\* are left out; only an error listing the images refuses.
ApproveCheckListOnly(st, listOk) == IF ~listOk THEN "image_err" ELSE ""

\* ApproveProd steps 2 and 4: the error the checks return, "" when they pass.
ApproveCheck(st, listOk) ==
    IF ~TestDeployed(st) THEN "no_test"
    ELSE IF ~listOk THEN "image_err"
    ELSE IF ~FindImage(ApprovedCommit(st)) THEN "image_missing"
    ELSE ""

\* ApproveProd steps 1-4: load configs and state, check the 'test' state,
\* identify the prod slots, find the image of the approved commit.
ApproveProdCalled ==
    /\ launches < MaxLaunches
    /\ \E cfgOk \in BOOLEAN, listOk \in BOOLEAN :
         LET w0 == StartedWf("prod")
             ld == LoadProjectState
             w1 == [w0 EXCEPT !.projState = ld.state]
             w2 == [w1 EXCEPT !.commit = ApprovedCommit(ld.state),
                              !.inactiveSlot = InactiveSlotOf(ld.state.prod.activeSlot)]
         IN  wf' = [wf EXCEPT !["prod"] =
                 IF ~cfgOk THEN Returned(w0, "config")
                 ELSE IF ld.err THEN Returned(w0, "state")
                 ELSE IF ApproveCheck(ld.state, listOk) = "no_test"
                      THEN Returned(w1, "no_test")
                 ELSE IF ApproveCheck(ld.state, listOk) # ""
                      THEN Returned(w2, ApproveCheck(ld.state, listOk))
                 ELSE [w2 EXCEPT !.pc = "purge"]]
    /\ UNCHANGED <<containers, images, stateFile, nginxConf, recipeFile, launches, hist, maint, projectDir, library>>

\* 'reflow approve': the command runs ApproveProd and exits.
ApproveStart ==
    /\ NoWorkflowInFlight
    /\ ApproveProdCalled
    /\ UNCHANGED requests

\* StopContainer then RemoveContainer (Force: false) of the containers in cs,
\* the stop error ignored: each container is removed, or stopped but not
\* removed, or left as it was when the daemon refuses both calls.
StopAndRemove(cs, removed, stopped) ==
    (containers \ cs)
        \cup {[c EXCEPT !.running = FALSE] : c \in stopped}
        \cup (cs \ (removed \cup stopped))

\* Stop/remove the containers found in the inactive slot.  A failed removal
\* is logged and the workflow goes on.
Purge(e) ==
    /\ wf[e].pc = "purge"
    /\ LET w == wf[e]
           found == FindBySlot(e, w.inactiveSlot)
       IN  \E findOk \in CtxCall(w) :
             IF ~findOk THEN
                 /\ wf' = [wf EXCEPT ![e] = Returned(w, "find")]
                 /\ UNCHANGED containers
             ELSE
                 /\ \E removed \in SUBSET found :
                      \E stopped \in SUBSET (found \ removed) :
                        containers' = StopAndRemove(found, removed, stopped)
                 /\ wf' = [wf EXCEPT ![e] = [w EXCEPT !.pc = "launch"]]
    /\ UNCHANGED <<images, stateFile, nginxConf, recipeFile, launches, hist, maint, projectDir, requests, library>>

\* Mutant of NewContainer: the slot label is the active slot of the loaded
\* state instead of the targeted inactive slot.
NewContainerActiveSlotLabel(e, w, id, running) ==
    [id |-> id, name |-> ContainerName(e, w.inactiveSlot, w.commit), env |-> e,
     slot |-> w.projState[e].activeSlot, commit |-> w.commit, image |-> w.commit,
     running |-> running, managed |-> TRUE]

\* Mutant of NewContainer: the labels of DeployTest are used in ApproveProd
\* too, so every container is labelled with the environment 'test'.
NewContainerTestLabel(e, w, id, running) ==
    [id |-> id, name |-> ContainerName(e, w.inactiveSlot, w.commit), env |-> "test",
     slot |-> w.inactiveSlot, commit |-> w.commit, image |-> w.commit,
     running |-> running, managed |-> TRUE]

\* The container RunContainer creates: labels, name, image, started or not.
NewContainer(e, w, id, running) ==
    [id |-> id, name |-> ContainerName(e, w.inactiveSlot, w.commit), env |-> e,
     slot |-> w.inactiveSlot, commit |-> w.commit, image |-> w.commit,
     running |-> running, managed |-> TRUE]

\* What RunContainer returns when ContainerCreate reports the name in use:
\* the id of the existing container when the inspect succeeds, else "".
ConflictId(name, inspectOk) ==
    IF inspectOk THEN (CHOOSE c \in containers : c.name = name).id ELSE NoId

\* Start the new container in the inactive slot (load the env file, RunContainer).
Launch(e) ==
    /\ wf[e].pc = "launch"
    /\ LET w == wf[e]
           name == ContainerName(e, w.inactiveSlot, w.commit)
           id == launches + 1
       IN  \E envOk \in BOOLEAN, createOk \in CtxCall(w), inspectOk \in BOOLEAN,
              startOk \in BOOLEAN, rmOk \in BOOLEAN :
             IF ~envOk THEN
                 /\ wf' = [wf EXCEPT ![e] = Returned(w, "envfile")]
                 /\ UNCHANGED <<containers, launches>>
             ELSE IF ~CtxDone(w) /\ \E c \in containers : c.name = name THEN
                 /\ wf' = [wf EXCEPT ![e] =
                        Returned([w EXCEPT !.containerName = name,
                                           !.newContainerID = ConflictId(name, inspectOk)],
                                 "run")]
                 /\ UNCHANGED <<containers, launches>>
             ELSE IF ~createOk THEN
                 /\ wf' = [wf EXCEPT ![e] =
                        Returned([w EXCEPT !.containerName = name], "run")]
                 /\ UNCHANGED <<containers, launches>>
             ELSE IF ~startOk THEN
                 /\ wf' = [wf EXCEPT ![e] =
                        Returned([w EXCEPT !.containerName = name], "run")]
                 /\ containers' = IF rmOk THEN containers
                                  ELSE containers \cup {NewContainer(e, w, id, FALSE)}
                 /\ launches' = id
             ELSE
                 /\ wf' = [wf EXCEPT ![e] =
                        [w EXCEPT !.containerName = name, !.newContainerID = id,
                                  !.pc = "health"]]
                 /\ containers' = containers \cup {NewContainer(e, w, id, TRUE)}
                 /\ launches' = id
    /\ UNCHANGED <<images, stateFile, nginxConf, recipeFile, hist, maint, projectDir, requests, library>>

\* Mutant of HealthLoopRuns: the loop has no deadline.
HealthLoopRunsForever(elapsed) == elapsed >= 0

\* for time.Since(healthCheckStartTime) < healthTimeout
HealthLoopRuns(elapsed) == elapsed < HealthTimeout

RECURSIVE HealthLoopNoGate(_, _)
\* Mutant of HealthLoop: the test of isHealthy after the loop is left out, a
\* loop that timed out counts as passed.
HealthLoopNoGate(elapsed, probes) ==
    IF elapsed >= HealthTimeout \/ probes = <<>> THEN "healthy"
    ELSE IF Head(probes) = "cancelled" THEN "cancelled"
    ELSE IF Head(probes) = "healthy" THEN "healthy"
    ELSE HealthLoopNoGate(elapsed + HealthInterval, Tail(probes))

\* The health loop run over the results of the successive probes of
\* CheckTcpHealthFromNginx ("cancelled": the context is done at the check
\* before the probe or during the wait after it).  Each iteration that does
\* not end the loop waits healthInterval.  "running": the loop wants another
\* probe result.
RECURSIVE HealthLoop(_, _)
HealthLoop(elapsed, probes) ==
    IF ~HealthLoopRuns(elapsed) THEN "health"
    ELSE IF probes = <<>> THEN "running"
    ELSE IF Head(probes) = "cancelled" THEN "cancelled"
    ELSE IF Head(probes) = "healthy" THEN "healthy"
    ELSE HealthLoop(elapsed + HealthInterval, Tail(probes))

\* Probe results: k failed probes (not healthy, or a probe error), then one more.
ProbeResults == {"cancelled", "healthy", "unhealthy", "probe_err"}
MaxProbes == HealthTimeout \div HealthInterval
ProbeRuns ==
    {[i \in 1..(k + 1) |-> IF i <= k THEN failed ELSE last] :
        k \in 0..MaxProbes, failed \in {"unhealthy", "probe_err"}, last \in ProbeResults}

\* CheckTcpHealthFromNginx returned (true, nil) for some probe of the run.
ProbeSucceeded(probes) == \E i \in 1..Len(probes) : probes[i] = "healthy"

\* Step 8: the health check of the new container.
HealthCheck(e) ==
    /\ wf[e].pc = "health"
    /\ LET w == wf[e] IN
       \E probes \in ProbeRuns :
         LET r == HealthLoop(0, probes) IN
         /\ r # "running"
         /\ CtxDone(w) <=> probes[Len(probes)] = "cancelled"
         /\ wf' = [wf EXCEPT ![e] =
                IF r = "healthy"
                THEN [w EXCEPT !.pc = "proxy", !.probed = ProbeSucceeded(probes)]
                ELSE Returned(w, r)]
    /\ UNCHANGED <<containers, images, stateFile, nginxConf, recipeFile, launches, hist, maint, projectDir, requests, library>>

\* GenerateNginxConfig: the upstream of the rendered site is the container name.
RenderSite(slot, containerName) ==
    [present |-> TRUE, slot |-> slot, upstream |-> containerName]

\* A site file that os.WriteFile truncated and then failed to fill.
TruncatedConf == [present |-> TRUE, slot |-> "", upstream |-> <<>>]

\* Resolve the domain, render the site and write <project>.<env>.conf.
ProxyWrite(e) ==
    /\ wf[e].pc = "proxy"
    /\ LET w == wf[e] IN
       \E domainOk \in BOOLEAN, writeOk \in BOOLEAN, truncated \in BOOLEAN :
         IF ~domainOk THEN
             /\ wf' = [wf EXCEPT ![e] = Returned(w, "domain")]
             /\ UNCHANGED nginxConf
         ELSE IF ~writeOk THEN
             /\ wf' = [wf EXCEPT ![e] = Returned(w, "nginx_write")]
             /\ nginxConf' = IF truncated THEN [nginxConf EXCEPT ![e] = TruncatedConf]
                             ELSE nginxConf
         ELSE
             /\ wf' = [wf EXCEPT ![e] = [w EXCEPT !.pc = "reload"]]
             /\ nginxConf' = [nginxConf EXCEPT ![e] =
                                  RenderSite(w.inactiveSlot, w.containerName)]
    /\ UNCHANGED <<containers, images, stateFile, recipeFile, launches, hist, maint, projectDir, requests, library>>

\* Mutant of ProxyReload: the error of ReloadNginx is ignored and the
\* workflow goes on to save the state.
ProxyReloadErrorIgnored(e) ==
    /\ wf[e].pc = "reload"
    /\ \E reloadOk \in BOOLEAN :
         wf' = [wf EXCEPT ![e] = [wf[e] EXCEPT !.pc = "save", !.reloaded = reloadOk]]
    /\ UNCHANGED <<containers, images, stateFile, nginxConf, recipeFile, launches, hist, maint, projectDir, requests, library>>

\* ReloadNginx: signal the proxy container.
ProxyReload(e) ==
    /\ wf[e].pc = "reload"
    /\ \E reloadOk \in CtxCall(wf[e]) :
         wf' = [wf EXCEPT ![e] =
             IF reloadOk THEN [wf[e] EXCEPT !.pc = "save", !.reloaded = TRUE]
             ELSE Returned(wf[e], "reload")]
    /\ UNCHANGED <<containers, images, stateFile, nginxConf, recipeFile, launches, hist, maint, projectDir, requests, library>>

\* Mutant of NewEnvState: the branches that set InactiveSlot are swapped, so
\* it is set to the slot that has just become active.
NewEnvStateSameSlot(slot, c) ==
    [activeSlot |-> slot, activeCommit |-> c, inactiveSlot |-> slot,
     pendingCommit |-> NoCommit]

\* The EnvironmentState the workflow sets for its environment.
NewEnvState(slot, c) ==
    [activeSlot |-> slot, activeCommit |-> c,
     inactiveSlot |-> IF slot = "blue" THEN "green" ELSE "blue",
     pendingCommit |-> NoCommit]

\* Update the in-memory state and save it (whole-file write).  A failed
\* write leaves the file as it was or truncated.
SaveState(e) ==
    /\ wf[e].pc = "save"
    /\ LET w == wf[e]
           st == [w.projState EXCEPT ![e] = NewEnvState(w.inactiveSlot, w.commit)]
           w1 == [w EXCEPT !.projState = st]
       IN  \E saveOk \in BOOLEAN, truncated \in BOOLEAN :
             IF saveOk THEN
                 /\ stateFile' = ReadableFile(st)
                 /\ wf' = [wf EXCEPT ![e] = Returned(w1, "")]
             ELSE
                 /\ stateFile' = IF truncated THEN CorruptFile ELSE stateFile
                 /\ wf' = [wf EXCEPT ![e] = Returned(w1, "save")]
    /\ UNCHANGED <<containers, images, nginxConf, recipeFile, launches, hist, maint, projectDir, requests, library>>

\* The condition of the deferred rollback.
RollbackRuns(w) == w.err # "" /\ w.newContainerID # NoId

\* Mutant of RemoveRecipe: the removal sits inside the error branch of the
\* deferred function, so a successful deployment leaves the file behind.
RemoveRecipeOnError(w) == IF w.dockerfilePath /\ w.err # "" THEN FALSE ELSE recipeFile

\* if dockerfilePath != "" { _ = os.Remove(dockerfilePath) }: whether the
\* recipe file exists after the deferred function.
RemoveRecipe(w) == IF w.dockerfilePath THEN FALSE ELSE recipeFile

\* The deferred function: roll back the new container on error (with a fresh
\* context), remove the recipe file; then the workflow has returned.
Deferred(e) ==
    /\ wf[e].pc = "defer"
    /\ LET w == wf[e]
           target == {c \in containers : c.id = w.newContainerID}
       IN  /\ IF RollbackRuns(w)
              THEN \E removed \in SUBSET target :
                     \E stopped \in SUBSET (target \ removed) :
                       containers' = StopAndRemove(target, removed, stopped)
              ELSE UNCHANGED containers
           /\ recipeFile' = RemoveRecipe(w)
           /\ wf' = [wf EXCEPT ![e] = [w EXCEPT !.pc = "done"]]
           /\ hist' = IF w.err = ""
                      THEN [hist EXCEPT ![e] =
                               [slot |-> stateFile.state[e].activeSlot,
                                id |-> w.newContainerID,
                                prevSlot |-> hist[e].slot, prevId |-> hist[e].id,
                                count |-> hist[e].count + 1]]
                      ELSE hist
    /\ UNCHANGED <<images, stateFile, nginxConf, launches, maint, projectDir, requests, library>>

\* The caller has the result; the workflow's locals are gone.
Finish(e) ==
    /\ wf[e].pc = "done"
    /\ wf' = [wf EXCEPT ![e] = IdleWf]
    /\ UNCHANGED <<containers, images, stateFile, nginxConf, recipeFile, launches, hist, maint, projectDir, requests, library>>

Next ==
    \/ DeployStart
    \/ DeployBuild
    \/ ApproveStart
    \/ \E e \in Envs : Purge(e)
    \/ \E e \in Envs : Launch(e)
    \/ \E e \in Envs : HealthCheck(e)
    \/ \E e \in Envs : ProxyWrite(e)
    \/ \E e \in Envs : ProxyReload(e)
    \/ \E e \in Envs : SaveState(e)
    \/ \E e \in Envs : Deferred(e)
    \/ \E e \in Envs : Finish(e)

Spec == Init /\ [][Next]_vars

\* The workflows with the health check taken poll by poll.  One iteration of
\* the loop: the deadline is tested, then the context, then the container is
\* probed; a probe that is not healthy or fails is followed by the wait of
\* healthInterval.  The measured time is kept below DurationRange, which the
\* loop never reaches.
DurationRange == 2 * HealthTimeout

HealthPoll(e) ==
    /\ wf[e].pc = "health"
    /\ LET w == wf[e] IN
       IF ~HealthLoopRuns(w.elapsed) THEN wf' = [wf EXCEPT ![e] = Returned(w, "health")]
       ELSE IF CtxDone(w) THEN wf' = [wf EXCEPT ![e] = Returned(w, "cancelled")]
       ELSE \E probe \in ProbeResults \ {"cancelled"} :
              wf' = [wf EXCEPT ![e] =
                  IF probe = "healthy"
                  THEN [w EXCEPT !.pc = "proxy", !.probed = TRUE, !.elapsed = 0]
                  ELSE [w EXCEPT !.elapsed = (@ + HealthInterval) % DurationRange]]
    /\ UNCHANGED <<containers, images, stateFile, nginxConf, recipeFile, launches, hist, maint, projectDir, requests, library>>

\* A step of a workflow that has been called.
WorkflowStep ==
    \/ DeployBuild
    \/ \E e \in Envs : Purge(e)
    \/ \E e \in Envs : Launch(e)
    \/ \E e \in Envs : HealthPoll(e)
    \/ \E e \in Envs : ProxyWrite(e)
    \/ \E e \in Envs : ProxyReload(e)
    \/ \E e \in Envs : SaveState(e)
    \/ \E e \in Envs : Deferred(e)

NextLive ==
    \/ DeployStart
    \/ ApproveStart
    \/ WorkflowStep
    \/ \E e \in Envs : Finish(e)

\* Every call the workflow makes returns, so a workflow that has been called
\* takes its next step; the commands themselves are the operator's.
SpecLive == Init /\ [][NextLive]_vars /\ WF_vars(WorkflowStep)

\* The workflows called with a context their caller may cancel: the context
\* is cancelled while the workflow is at one of its steps.
CancellableSteps == {"build", "purge", "launch", "health", "proxy", "reload", "save"}

Cancel(e) ==
    /\ wf[e].pc \in CancellableSteps
    /\ ~CtxDone(wf[e])
    /\ wf' = [wf EXCEPT ![e].cancelledAt = wf[e].pc]
    /\ UNCHANGED <<containers, images, stateFile, nginxConf, recipeFile, launches, hist, maint, projectDir, requests, library>>

NextCancel ==
    \/ Next
    \/ \E e \in Envs : Cancel(e)

SpecCancel == Init /\ [][NextCancel]_vars

\* DeployTest steps 2-3 on the clone.  The remote's default branch advances by
\* pushes of its developers.
RemotePush ==
    /\ repo.remote < MaxCommits
    /\ repo' = [repo EXCEPT !.remote = repo.remote + 1]
    /\ UNCHANGED <<containers, images, stateFile, nginxConf, recipeFile, wf, launches,
                   hist, maint, deploymentsLog, requests, library>>

\* The revisions a deploy command names: none, "HEAD", or the hash of a commit.
Revisions ==
    {[name |-> n, hash |-> 0] : n \in {"", "HEAD"}}
      \cup {[name |-> "hash", hash |-> h] : h \in 1..MaxCommits}

defaultCommit == [name |-> "HEAD", hash |-> 0]

\* FetchUpdates: repo.Fetch from origin moves the remote-tracking refs only.
FetchUpdates(r) == [r EXCEPT !.origin = r.remote]

\* repo.ResolveRevision in the clone: "HEAD" is the clone's HEAD, the commit
\* of a detached checkout or else the local branch; a hash is a commit the
\* clone has (0: the revision does not resolve).
ResolveRevision(r, rev) ==
    IF rev.name = "HEAD" THEN (IF r.detached # 0 THEN r.detached ELSE r.branch)
    ELSE IF rev.hash <= r.origin THEN rev.hash
    ELSE 0

\* CheckoutCommit: Worktree.Checkout with Hash set detaches HEAD at the commit.
CheckoutCommit(r, hash) == [r EXCEPT !.detached = hash]

\* DeployTest steps 2-3: default the revision, fetch, resolve, check out.
ResolveAndCheckout ==
    \E rev \in Revisions, fetchOk \in BOOLEAN, checkoutOk \in BOOLEAN :
      LET targetCommitIsh == IF rev.name = "" THEN defaultCommit ELSE rev
          fetched == FetchUpdates(repo)
          resolvedHash == ResolveRevision(fetched, targetCommitIsh)
          call == [rev |-> rev, hash |-> resolvedHash, err |-> ""]
      IN  /\ repo' =
                IF ~fetchOk THEN [repo EXCEPT !.last = [call EXCEPT !.hash = 0, !.err = "fetch"]]
                ELSE IF resolvedHash = 0
                     THEN [fetched EXCEPT !.last = [call EXCEPT !.err = "resolve"]]
                ELSE IF ~checkoutOk
                     THEN [fetched EXCEPT !.last = [call EXCEPT !.err = "checkout"]]
                ELSE [CheckoutCommit(fetched, resolvedHash) EXCEPT !.last = call]
          /\ UNCHANGED <<containers, images, stateFile, nginxConf, recipeFile, wf,
                         launches, hist, maint, deploymentsLog, requests, library>>

NextRepo ==
    \/ RemotePush
    \/ ResolveAndCheckout

SpecRepo == Init /\ [][NextRepo]_vars

\* Domain resolution.  The arguments of GetEffectiveDomain: the environment,
\* whether projCfg.Environments has an entry for it, the override and the
\* domain of the entry from projCfg, and DefaultDomain from globalCfg.
DomainNames == {NoDomain, <<"a.example">>, <<"b.example">>}

DomainCalls ==
    {[NoDomainCall EXCEPT !.env = e, !.defined = d, !.override = o,
                          !.domain = IF d THEN dom ELSE NoDomain, !.defaultDomain = g] :
        e \in Envs, d \in BOOLEAN, o \in DomainNames, dom \in DomainNames,
        g \in {NoDomain, <<"example.com">>, <<"localhost">>}}

InitDomain ==
    /\ InitInstallation
    /\ domainCall \in DomainCalls
    /\ globalConfig = NoGlobalConfig
    /\ historyCall = NoHistoryCall
    /\ logCalls = NoLogCalls

\* Mutant of GetEffectiveDomain: the configured domain is tested before the
\* override.
GetEffectiveDomainConfigFirst(c) ==
    IF ~c.defined THEN [result |-> NoDomain, err |-> "undefined"]
    ELSE IF c.domain # NoDomain THEN [result |-> c.domain, err |-> ""]
    ELSE IF c.override # NoDomain THEN [result |-> c.override, err |-> ""]
    ELSE IF c.defaultDomain = NoDomain THEN [result |-> NoDomain, err |-> "unresolved"]
    ELSE [result |-> <<"myblog", c.env>> \o c.defaultDomain, err |-> ""]

\* GetEffectiveDomain(globalCfg, projCfg, env) for env "test" or "prod".
GetEffectiveDomain(c) ==
    IF ~c.defined THEN [result |-> NoDomain, err |-> "undefined"]
    ELSE IF c.override # NoDomain THEN [result |-> c.override, err |-> ""]
    ELSE IF c.domain # NoDomain THEN [result |-> c.domain, err |-> ""]
    ELSE IF c.defaultDomain = NoDomain THEN [result |-> NoDomain, err |-> "unresolved"]
    ELSE [result |-> <<"myblog", c.env>> \o c.defaultDomain, err |-> ""]

ResolveDomain ==
    /\ ~domainCall.called
    /\ domainCall' = [domainCall EXCEPT !.called = TRUE,
                                        !.result = GetEffectiveDomain(domainCall).result,
                                        !.err = GetEffectiveDomain(domainCall).err]
    /\ UNCHANGED <<installation, globalConfig, historyCall, logCalls>>

NextDomain == ResolveDomain

SpecDomain == InitDomain /\ [][NextDomain]_vars

InitGlobalConfig ==
    /\ InitInstallation
    /\ domainCall = NoDomainCall
    /\ globalConfig \in {[NoGlobalConfig EXCEPT !.file = f] : f \in ConfigFiles}
    /\ historyCall = NoHistoryCall
    /\ logCalls = NoLogCalls

\* LoadGlobalConfig(basePath).  The cached value is returned when there is
\* one.  Otherwise viper reads the file over the defaults (defaultDomain
\* "localhost", debug false); for a missing file ReadInConfig returns either
\* ConfigFileNotFoundError, and the defaults are used, or another error, which
\* is returned; a read or parse error of a present file is returned too.
LoadGlobalConfig ==
    LET g == globalConfig
        defaults == ConfigFile("yaml", <<"localhost">>, FALSE)
        returned(cfg) == [g EXCEPT !.loaded = cfg, !.err = FALSE,
                                   !.loadedSinceWrite = (g.written.kind = "yaml")]
        failed == [g EXCEPT !.loaded = MissingConfigFile, !.err = TRUE,
                            !.loadedSinceWrite = FALSE]
    IN  /\ globalConfig' \in
              IF g.cache.kind = "yaml" THEN {returned(g.cache)}
              ELSE {failed} \cup
                   {[returned(cfg) EXCEPT !.cache = cfg] :
                       cfg \in IF g.file.kind = "yaml" THEN {g.file} ELSE {defaults}}
        /\ UNCHANGED <<installation, domainCall, historyCall, logCalls>>

\* createDefaultGlobalConfig(basePath): an existing file is kept; otherwise
\* the default configuration is written.  A failed WriteFile leaves no file
\* or an empty one.
createDefaultGlobalConfig ==
    LET g == globalConfig
        defaultConfig == ConfigFile("yaml", <<"yourdomain.com">>, FALSE)
    IN  /\ g.file.kind = "missing"
        /\ globalConfig' \in
              {[g EXCEPT !.file = defaultConfig, !.written = defaultConfig,
                         !.loadedSinceWrite = FALSE]}
              \cup {[g EXCEPT !.file = f] : f \in {ConfigFile("empty", NoDomain, FALSE)}}
        /\ UNCHANGED <<installation, domainCall, historyCall, logCalls>>

\* The operator edits or deletes config.yaml outside the process.
EditGlobalConfig ==
    /\ \E f \in ConfigFiles \ {globalConfig.file} :
           globalConfig' = [globalConfig EXCEPT !.file = f, !.written = MissingConfigFile,
                                                !.loadedSinceWrite = FALSE]
    /\ UNCHANGED <<installation, domainCall, historyCall, logCalls>>

\* The process exits and the next command starts with an empty cache.
NewProcess ==
    /\ globalConfig # [NoGlobalConfig EXCEPT !.file = globalConfig.file]
    /\ globalConfig' = [NoGlobalConfig EXCEPT !.file = globalConfig.file]
    /\ UNCHANGED <<installation, domainCall, historyCall, logCalls>>

NextGlobalConfig ==
    \/ LoadGlobalConfig
    \/ createDefaultGlobalConfig
    \/ EditGlobalConfig
    \/ NewProcess

SpecGlobalConfig == InitGlobalConfig /\ [][NextGlobalConfig]_vars

\* The deployment history.  A line of deployments.log holds an event or does
\* not parse; limit and offset arrive as strings.
MaxLines == 3

HistoryLines ==
    {[parsed |-> TRUE, timestamp |-> 1, env |-> "test", outcome |-> "success"],
     [parsed |-> TRUE, timestamp |-> 2, env |-> "test", outcome |-> "failure"],
     [parsed |-> TRUE, timestamp |-> 2, env |-> "prod", outcome |-> "success"],
     [parsed |-> TRUE, timestamp |-> 3, env |-> "prod", outcome |-> "started"],
     [parsed |-> FALSE, timestamp |-> 0, env |-> "", outcome |-> ""]}

\* The largest int of a 32-bit build; a 64-bit build differs in the value only.
MaxInt == 2147483647

NumberStrings ==
    {[kind |-> k, value |-> 0] : k \in {"empty", "text", "huge"}}
    \cup {[kind |-> "int", value |-> n] : n \in {-1, 0, 1, 2, MaxInt}}

HistoryCalls ==
    {[NoHistoryCall EXCEPT !.lines = l, !.limitStr = lim, !.offsetStr = off,
                           !.envFilter = ef, !.outcomeFilter = outf] :
        l \in UNION {[1..n -> HistoryLines] : n \in 0..MaxLines},
        lim \in NumberStrings, off \in NumberStrings,
        ef \in {"", "Test", "prod"}, outf \in {"", "SUCCESS"}}

InitHistory ==
    /\ InitInstallation
    /\ domainCall = NoDomainCall
    /\ globalConfig = NoGlobalConfig
    /\ historyCall \in HistoryCalls
    /\ logCalls = NoLogCalls

\* strconv.Atoi: a value and no error for a decimal numeral within the range
\* of int, an error otherwise.
Atoi(str) == [ok |-> str.kind = "int", n |-> IF str.kind = "int" THEN str.value ELSE 0]

\* a + b of two non-negative ints, wrapping around as Go's int does.
AddInt(a, b) == IF a > MaxInt - b THEN (a - (MaxInt - b) - 1) + (-MaxInt - 1) ELSE a + b

\* strings.EqualFold over the strings of the model.
EqualFold(a, b) ==
    LET fold(x) == IF x = "Test" THEN "test" ELSE IF x = "SUCCESS" THEN "success" ELSE x
    IN  fold(a) = fold(b)

\* sort.SliceStable with less(i, j) == events[i].Timestamp.After(events[j].Timestamp).
RECURSIVE SortByTimestamp(_)
SortByTimestamp(events) ==
    IF events = <<>> THEN <<>>
    ELSE LET x == Head(events)
             rest == SortByTimestamp(Tail(events))
             later == SelectSeq(rest, LAMBDA y : y.timestamp > x.timestamp)
             others == SelectSeq(rest, LAMBDA y : y.timestamp <= x.timestamp)
         IN  later \o <<x>> \o others

\* end := start + limit; if end > totalFiltered { end = totalFiltered }
HistoryWindow(start, limit, totalFiltered) ==
    LET end == AddInt(start, limit)
    IN  IF end > totalFiltered THEN totalFiltered ELSE end

\* ListHistory(basePath, projectName, limitStr, offsetStr, envFilter,
\* outcomeFilter) over a log that opens and reads.  filteredEvents[start:end]
\* panics when end < start.
ListHistory(c) ==
    LET allEvents == SelectSeq(c.lines, LAMBDA l : l.parsed)
        sorted == SortByTimestamp(allEvents)
        matches(event) ==
            /\ (c.envFilter = "" \/ EqualFold(event.env, c.envFilter))
            /\ (c.outcomeFilter = "" \/ EqualFold(event.outcome, c.outcomeFilter))
        filteredEvents == SelectSeq(sorted, matches)
        totalFiltered == Len(filteredEvents)
        off == Atoi(c.offsetStr)
        lim == Atoi(c.limitStr)
        offset == IF c.offsetStr.kind # "empty" /\ off.ok /\ off.n >= 0 THEN off.n ELSE 0
        limit == IF c.limitStr.kind # "empty" /\ lim.ok /\ lim.n > 0 THEN lim.n ELSE 25
        start == offset
        end == HistoryWindow(start, limit, totalFiltered)
    IN  IF start >= totalFiltered THEN [events |-> <<>>, panicked |-> FALSE]
        ELSE IF end < start THEN [events |-> <<>>, panicked |-> TRUE]
        ELSE [events |-> SubSeq(filteredEvents, start + 1, end), panicked |-> FALSE]

HistoryRequested ==
    /\ ~historyCall.called
    /\ historyCall' = [historyCall EXCEPT !.called = TRUE,
                                          !.events = ListHistory(historyCall).events,
                                          !.panicked = ListHistory(historyCall).panicked]
    /\ UNCHANGED <<installation, domainCall, globalConfig, logCalls>>

NextHistory == HistoryRequested

SpecHistory == InitHistory /\ [][NextHistory]_vars

\* The audit log.  Each request in flight calls LogEvent once; the entry of
\* caller c is the bytes <<c, 0>> followed by <<c, 1>>, which end with the
\* newline.  File.WriteString writes the entry with one write or, after a
\* short write, with a second one for the rest.
InitLog ==
    /\ InitInstallation
    /\ domainCall = NoDomainCall
    /\ globalConfig = NoGlobalConfig
    /\ historyCall = NoHistoryCall
    /\ logCalls = NoLogCalls

\* Mutant of LogLock: the caller goes on without waiting for logMutex.
LogLockNoMutex(c) ==
    /\ logCalls.pc[c] = "idle"
    /\ logCalls' = [logCalls EXCEPT !.holder = c, !.pc[c] = "locked"]
    /\ UNCHANGED <<installation, domainCall, globalConfig, historyCall>>

\* logMutex.Lock()
LogLock(c) ==
    /\ logCalls.pc[c] = "idle"
    /\ logCalls.holder = 0
    /\ logCalls' = [logCalls EXCEPT !.holder = c, !.pc[c] = "locked"]
    /\ UNCHANGED <<installation, domainCall, globalConfig, historyCall>>

\* MkdirAll, json.Marshal and OpenFile(O_APPEND|O_CREATE|O_WRONLY); after an
\* error the function returns.
LogOpen(c) ==
    /\ logCalls.pc[c] = "locked"
    /\ \E ok \in BOOLEAN :
           logCalls' = [logCalls EXCEPT !.pc[c] = IF ok THEN "open" ELSE "failed"]
    /\ UNCHANGED <<installation, domainCall, globalConfig, historyCall>>

\* file.WriteString(logEntry): the whole entry, a part of it, the rest of it,
\* or an error.
LogWrite(c) ==
    /\ \/ /\ logCalls.pc[c] = "open"
          /\ \/ logCalls' = [logCalls EXCEPT !.file = @ \o << <<c, 0>>, <<c, 1>> >>,
                                             !.pc[c] = "written"]
             \/ logCalls' = [logCalls EXCEPT !.file = Append(@, <<c, 0>>),
                                             !.pc[c] = "partial"]
             \/ logCalls' = [logCalls EXCEPT !.pc[c] = "failed"]
       \/ /\ logCalls.pc[c] = "partial"
          /\ \/ logCalls' = [logCalls EXCEPT !.file = Append(@, <<c, 1>>),
                                             !.pc[c] = "written"]
             \/ logCalls' = [logCalls EXCEPT !.pc[c] = "failed"]
    /\ UNCHANGED <<installation, domainCall, globalConfig, historyCall>>

\* The deferred file.Close() and logMutex.Unlock().
LogReturn(c) ==
    /\ logCalls.pc[c] \in {"written", "failed"}
    /\ logCalls' = [logCalls EXCEPT !.holder = IF @ = c THEN 0 ELSE @,
                                    !.pc[c] = IF @ = "written" THEN "returned" ELSE "errored"]
    /\ UNCHANGED <<installation, domainCall, globalConfig, historyCall>>

NextLog ==
    \E c \in 1..MaxRequests : LogLock(c) \/ LogOpen(c) \/ LogWrite(c) \/ LogReturn(c)

SpecLog == InitLog /\ [][NextLog]_vars

\* The HTTP control plane: net/http serves every request on a goroutine of
\* its own, and the handlers call the workflows directly.  (The model keeps
\* one set of workflow locals per environment, so a request for an
\* environment is taken up once the previous call for it has returned.)
handleDeployProject ==
    /\ requests < MaxRequests
    /\ wf["test"].pc = "idle"
    /\ requests' = requests + 1
    /\ DeployTestCalled

handleApproveProject ==
    /\ requests < MaxRequests
    /\ wf["prod"].pc = "idle"
    /\ requests' = requests + 1
    /\ ApproveProdCalled

NextApi ==
    \/ handleDeployProject
    \/ DeployBuild
    \/ handleApproveProject
    \/ \E e \in Envs : Purge(e)
    \/ \E e \in Envs : Launch(e)
    \/ \E e \in Envs : HealthCheck(e)
    \/ \E e \in Envs : ProxyWrite(e)
    \/ \E e \in Envs : ProxyReload(e)
    \/ \E e \in Envs : SaveState(e)
    \/ \E e \in Envs : Deferred(e)
    \/ \E e \in Envs : Finish(e)

SpecApi == Init /\ [][NextApi]_vars

-----------------------------------------------------------------------------
\* Properties.

Succeeded(e) == wf[e].pc = "done" /\ wf[e].err = ""

\* Errors of the health step and of the proxy step.
HealthOrProxyErrs == {"health", "domain", "nginx_write", "reload"}
FailedAtHealthOrProxy(e) == wf[e].pc = "done" /\ wf[e].err \in HealthOrProxyErrs

\* The containers labelled with the persisted active (slot, commit) of e.
ActiveContainers(e) ==
    {c \in containers : /\ c.env = e
                        /\ c.slot = stateFile.state[e].activeSlot
                        /\ c.commit = stateFile.state[e].activeCommit}

\* C1 (slot toggle law): the activeSlot persisted by a successful deployment
\* to an environment differs from the one persisted by the previous
\* successful deployment to that environment.
C1_SlotToggle ==
    \A e \in Envs : hist[e].count >= 2 => hist[e].slot # hist[e].prevSlot

\* C2 (rollback leaves no trace): after a deployment failed at the health or
\* the proxy step, no container is labelled with the targeted inactive slot of
\* the environment, and the state file is what it was before the deployment.
C2_RollbackNoTrace ==
    \A e \in Envs :
        FailedAtHealthOrProxy(e) =>
            /\ FindBySlot(e, wf[e].inactiveSlot) = {}
            /\ stateFile = wf[e].pre.state

\* C3 (persist failure does not revert traffic): after a deployment whose
\* only failure was saving the state, the new container is still running and
\* the proxy file still names it.
C3_PersistFailureKeepsContainer ==
    \A e \in Envs :
        (wf[e].pc = "done" /\ wf[e].err = "save") =>
            /\ \E c \in containers : c.id = wf[e].newContainerID /\ c.running
            /\ nginxConf[e] = RenderSite(wf[e].inactiveSlot, wf[e].containerName)

\* C4 (rollback leaves the proxy configuration untouched): after a deployment
\* failed at the health or the proxy step, the site file of the environment
\* has the content it had before the deployment.
C4_RollbackKeepsProxyConf ==
    \A e \in Envs :
        FailedAtHealthOrProxy(e) => nginxConf[e] = wf[e].pre.conf[e]

\* C5 (label-state consistency): after a successful deployment to an
\* environment, exactly one container carries the labels (environment,
\* persisted activeSlot, persisted activeCommit), and it is running.
C5_LabelStateConsistency ==
    \A e \in Envs :
        Succeeded(e) =>
            /\ stateFile.ok
            /\ Cardinality(ActiveContainers(e)) = 1
            /\ \A c \in ActiveContainers(e) : c.running /\ c.id = wf[e].newContainerID

C5_Witness ==
    \E e \in Envs :
        /\ Succeeded(e)
        /\ hist[e].count >= 2
        /\ Cardinality(FindBySlot(e, "blue") \cup FindBySlot(e, "green")) >= 2

\* C6 (state is written last): while a workflow runs and after it returned,
\* the state file differs from its content at the start of the workflow only
\* if the proxy reload returned successfully and the workflow has executed
\* its final step (it returned nil or the error of the save).
C6_StateWrittenOnlyAtEnd ==
    \A e \in Envs :
        (wf[e].pc # "idle" /\ stateFile # wf[e].pre.state) =>
            /\ wf[e].reloaded
            /\ wf[e].pc \in {"defer", "done"}
            /\ wf[e].err \in {"", "save"}

C6_Witness ==
    \E e \in Envs :
        /\ Succeeded(e)
        /\ wf[e].pre.state.ok
        /\ wf[e].pre.state.state[e].activeCommit # NoCommit
        /\ stateFile # wf[e].pre.state

\* C7 (proxy file points at the active container): when no workflow is in
\* flight, the site file of a deployed environment names as upstream the
\* container labelled with the persisted active slot and commit.
C7_ProxyPointsAtActive ==
    \A e \in Envs :
        (NoWorkflowInFlight /\ hist[e].count > 0) =>
            /\ stateFile.ok
            /\ nginxConf[e].present
            /\ \E c \in ActiveContainers(e) : nginxConf[e].upstream = c.name

\* C8 (the ability to revert is preserved): a deployment to an environment
\* neither stops nor removes the container of the last successful deployment
\* to that environment, the one that was active when the deployment started.
C8_ActiveContainerKept ==
    \A e \in Envs :
        wf[e].pc # "idle" =>
            \A c \in wf[e].pre.containers :
                c.id = wf[e].pre.activeId => c \in containers

\* C9 (ApproveProd refuses without an approvable staging deployment):
\* ApproveProd goes past its checks only if the loaded state has a non-empty
\* staging activeCommit whose image exists locally; when it refuses, no
\* container, no proxy file and not the state file have changed.
ApproveRefusals == {"state", "no_test", "image_err", "image_missing"}

C10_ApprovePromotesStagingCommit ==
    LET w == wf["prod"]
        approved == w.pre.state.state.test.activeCommit
    IN  Succeeded("prod") =>
            /\ w.pre.state.ok
            /\ approved # NoCommit
            /\ stateFile.state.prod.activeCommit = approved
            /\ images = w.pre.images
            /\ \E c \in containers :
                   c.id = w.newContainerID /\ c.image = approved /\ c.commit = approved

C10_Witness ==
    /\ Succeeded("prod")
    /\ stateFile.state.prod.activeCommit = <<"def5678", "y">>
    /\ hist["test"].count >= 2

-----------------------------------------------------------------------------
\* Maintenance: cleanup of inactive containers and image pruning.  The
\* commands are run on any state file, any set of managed containers of the
\* project and any set of its images.

\* Number of managed containers of the project when the command starts.
MaxContainers == 2

\* A commit that was deployed once and is active nowhere.
StaleCommit == <<"0badc0d", "z">>
KnownCommits == Commits \cup {StaleCommit}
Slots == {"blue", "green"}

\* The container ids the daemon has handed out for (env, slot, commit).
ContainerIds ==
    [k \in Envs \X Slots \X Commits |->
        (IF k[1] = "test" THEN 0 ELSE 4) + (IF k[2] = "blue" THEN 0 ELSE 2)
        + (IF Short(k[3]) = "abc1234" THEN 1 ELSE 2)]

\* The containers DeployTest and ApproveProd can have created, running.
ManagedContainers ==
    {NewContainer(k[1], [inactiveSlot |-> k[2], commit |-> k[3]], ContainerIds[k], TRUE) :
        k \in Envs \X Slots \X Commits}

\* The environment states a successful deployment persists, and the empty one.
EnvStates == {EmptyEnvState} \cup {NewEnvState(slot, c) : slot \in Slots, c \in Commits}
ProjectStates == [test : EnvStates, prod : EnvStates]

Range(seq) == {seq[i] : i \in 1..Len(seq)}

\* An image: its id and its RepoTags <project>:<commit>, in the daemon's order.
TagLists ==
    {t \in UNION {[1..n -> KnownCommits] : n \in 1..2} :
        \A i, j \in 1..Len(t) : i # j => t[i] # t[j]}
ImageUniverse == {[id |-> t[1], tags |-> t] : t \in TagLists}
ImageStores ==
    {st \in SUBSET ImageUniverse :
        \A a, b \in st : a # b => Range(a.tags) \cap Range(b.tags) = {}}

\* The tags <project>:<c> that exist in an image store.
TagsOf(store) == UNION {Range(img.tags) : img \in store}

InitCleanup ==
    /\ containers \in {cs \in SUBSET ManagedContainers : Cardinality(cs) <= MaxContainers}
    /\ stateFile \in {ReadableFile(st) : st \in ProjectStates} \cup {CorruptFile}
    /\ imageStore \in ImageStores
    /\ images = TagsOf(imageStore)
    /\ nginxConf = [e \in Envs |-> NoConf]
    /\ recipeFile = FALSE
    /\ wf = [e \in Envs |-> IdleWf]
    /\ launches = Cardinality(ManagedContainers)
    /\ hist = [e \in Envs |-> [slot |-> "", id |-> NoId, prevSlot |-> "",
                                prevId |-> NoId, count |-> 0]]
    /\ op = NoOp
    /\ platform = InitializedPlatform
    /\ deploymentsLog = <<>>
    /\ repo = ClonedRepo(1)
    /\ requests = 0
    /\ IdleLibrary

\* The command that ran, its environment, whether it returned an error, and
\* the containers and images that existed when it started.
OpResult(name, e, err) ==
    [name |-> name, env |-> e, err |-> err, containers |-> containers,
     imageStore |-> imageStore, platform |-> platform, prev |-> op.name,
     faults |-> {}, failed |-> {}, reported |-> {}, cleanedCount |-> 0,
     cleanupErrors |-> {}]

\* Mutant of IsInactive: the slot test is inverted.
IsInactiveSlotInverted(c, activeSlot, activeCommit) ==
    c.slot = activeSlot \/ c.commit # activeCommit

\* isInactive := slotLabel != activeSlot || commitLabel != activeCommit
IsInactive(c, activeSlot, activeCommit) ==
    c.slot # activeSlot \/ c.commit # activeCommit

RECURSIVE CleanupLoopStopsAtError(_, _)
\* Mutant of CleanupLoop: the loop is left at the first failed removal.
CleanupLoopStopsAtError(todo, removable) ==
    IF todo = {} THEN [removed |-> {}, cleanedCount |-> 0, cleanupErrors |-> {}]
    ELSE LET c == CHOOSE x \in todo : \A y \in todo : x.id <= y.id
         IN  IF c \in removable
             THEN LET rest == CleanupLoopStopsAtError(todo \ {c}, removable)
                  IN  [rest EXCEPT !.removed = @ \cup {c}, !.cleanedCount = @ + 1]
             ELSE [removed |-> {}, cleanedCount |-> 0, cleanupErrors |-> {c.id}]

RECURSIVE CleanupLoop(_, _)
\* for _, c := range allContainers, over the inactive ones in the order of
\* the list: the stop error is ignored, a failed removal is appended to
\* cleanupErrors and the loop goes on, a removal counts in cleanedCount.
\* removable are the containers whose RemoveContainer succeeds.
CleanupLoop(todo, removable) ==
    IF todo = {} THEN [removed |-> {}, cleanedCount |-> 0, cleanupErrors |-> {}]
    ELSE LET c == CHOOSE x \in todo : \A y \in todo : x.id <= y.id
             rest == CleanupLoop(todo \ {c}, removable)
         IN  IF c \in removable
             THEN [rest EXCEPT !.removed = @ \cup {c}, !.cleanedCount = @ + 1]
             ELSE [rest EXCEPT !.cleanupErrors = @ \cup {c.id}]

\* CleanupProjectEnv(project, env): stop and remove the containers of the
\* environment that are not the active one.  Nothing is done when the state
\* names no active deployment of the environment.
CleanupProjectEnv(e) ==
    /\ op = NoOp
    /\ LET ld == LoadProjectState
           activeSlot == ld.state[e].activeSlot
           activeCommit == ld.state[e].activeCommit
           allContainers == {c \in containers : c.env = e}
           inactive == {c \in allContainers : IsInactive(c, activeSlot, activeCommit)}
       IN  IF ld.err THEN
               /\ op' = [OpResult("cleanup", e, TRUE) EXCEPT !.faults = {"state"}]
               /\ UNCHANGED containers
           ELSE IF activeCommit = NoCommit \/ activeSlot = "" THEN
               /\ op' = OpResult("cleanup", e, FALSE)
               /\ UNCHANGED containers
           ELSE \E findOk \in BOOLEAN :
               IF ~findOk THEN
                   /\ op' = [OpResult("cleanup", e, TRUE) EXCEPT !.faults = {"find"}]
                   /\ UNCHANGED containers
               ELSE \E removable \in SUBSET inactive :
                      LET loop == CleanupLoop(inactive, removable) IN
                      \E stopped \in SUBSET (inactive \ removable) :
                        /\ containers' = StopAndRemove(inactive, loop.removed, stopped)
                        /\ op' = [OpResult("cleanup", e, loop.cleanupErrors # {}) EXCEPT
                                      !.cleanedCount = loop.cleanedCount,
                                      !.cleanupErrors = loop.cleanupErrors]
    /\ UNCHANGED <<images, stateFile, nginxConf, recipeFile, wf, launches, hist,
                   imageStore, platform, projectDir, requests, library>>

\* Mutant of ActiveCommits: only the commit active in 'test' is kept.
ActiveCommitsTestOnly(st) == {st.test.activeCommit} \ {NoCommit}

\* activeCommits: the commits active in 'test' or in 'prod'.
ActiveCommits(st) == {st.test.activeCommit, st.prod.activeCommit} \ {NoCommit}

\* The commit PruneProjectImages reads from an image: that of the first
\* RepoTag with the project's prefix.
FirstProjectTag(img) == Head(img.tags)

\* ImageRemove with Force: false: the daemon refuses an image that has more
\* than one tag or that a container was created from.
ImageRemoveRefused(img) ==
    \/ Len(img.tags) > 1
    \/ \E c \in containers : c.image \in Range(img.tags)

\* PruneProjectImages(project): remove the images of the project whose
\* commit is active in no environment.
PruneProjectImages ==
    /\ op = NoOp
    /\ LET ld == LoadProjectState
           active == ActiveCommits(ld.state)
           prunable == {img \in imageStore : FirstProjectTag(img) \notin active}
       IN  IF ld.err THEN
               /\ op' = OpResult("prune", "", TRUE)
               /\ UNCHANGED <<imageStore, images>>
           ELSE IF active = {} THEN
               /\ op' = OpResult("prune", "", FALSE)
               /\ UNCHANGED <<imageStore, images>>
           ELSE \E listOk \in BOOLEAN :
               IF ~listOk THEN
                   /\ op' = OpResult("prune", "", TRUE)
                   /\ UNCHANGED <<imageStore, images>>
               ELSE \E removed \in SUBSET {img \in prunable : ~ImageRemoveRefused(img)} :
                   /\ imageStore' = imageStore \ removed
                   /\ images' = TagsOf(imageStore \ removed)
                   /\ op' = OpResult("prune", "", removed # prunable)
    /\ UNCHANGED <<containers, stateFile, nginxConf, recipeFile, wf, launches, hist,
                   platform, projectDir, requests, library>>

NextCleanup ==
    \/ \E e \in Envs : CleanupProjectEnv(e)
    \/ PruneProjectImages

SpecCleanup == InitCleanup /\ [][NextCleanup]_vars

\* The containers of the command's environment that carry the active slot
\* and commit of the state, among those that existed when it started.
ActiveBefore ==
    {c \in op.containers : /\ c.env = op.env
                           /\ c.slot = stateFile.state[op.env].activeSlot
                           /\ c.commit = stateFile.state[op.env].activeCommit}

\* C14 (cleanup preserves the active container): CleanupProjectEnv neither
\* stops nor removes a container whose slot and commit labels are the
\* activeSlot and activeCommit of its environment in the state.
C14_CleanupKeepsActive ==
    (op.name = "cleanup" /\ stateFile.ok) => ActiveBefore \subseteq containers

C14_Witness ==
    /\ op.name = "cleanup" /\ stateFile.ok
    /\ ActiveBefore # {}
    /\ containers # op.containers

\* C15 (cleanup completeness): after a cleanup of an environment that
\* returned no error, no container of that environment remains whose slot or
\* commit label differs from the active ones of the state, also when the
\* state of the environment is empty.
C15_CleanupComplete ==
    (op.name = "cleanup" /\ ~op.err /\ stateFile.ok) =>
        \A c \in containers :
            c.env = op.env =>
                /\ c.slot = stateFile.state[op.env].activeSlot
                /\ c.commit = stateFile.state[op.env].activeCommit

\* The images the prune removed.
PrunedImages == op.imageStore \ imageStore

\* C16 (image prune safety): no image removed by the prune carried a tag of
\* a commit that is active in 'test' or in 'prod', also when the image
\* carries several tags of the project.
C16_PruneKeepsActiveImages ==
    op.name = "prune" =>
        /\ ~stateFile.ok => PrunedImages = {}
        /\ \A img \in PrunedImages :
              Range(img.tags) \cap {stateFile.state.test.activeCommit,
                                    stateFile.state.prod.activeCommit} = {}

C16_Witness ==
    /\ op.name = "prune"
    /\ PrunedImages # {}
    /\ \E img \in imageStore :
          /\ FirstProjectTag(img) \notin ActiveCommits(stateFile.state)
          /\ Range(img.tags) \cap ActiveCommits(stateFile.state) # {}

-----------------------------------------------------------------------------
\* Maintenance: 'reflow destroy --force' and 'reflow init'.

\* A file of the base directory: absent, as init writes it, edited by the
\* user, or truncated by a write that failed.
FileStates == {"absent", "default", "edited", "truncated"}

\* The installations the commands can find: nothing exists outside an
\* existing base directory, and a running container is attached to the
\* network.
Platforms ==
    {p \in [baseDir : BOOLEAN, globalCfg : FileStates \ {"truncated"},
            defaultConf : FileStates \ {"truncated"},
            network : BOOLEAN, proxy : {"absent", "stopped", "running"}] :
        /\ ~p.baseDir => p.globalCfg = "absent" /\ p.defaultConf = "absent"
        /\ p.proxy = "running" => p.network}

\* The application containers are those of slot blue of 'test', all
\* running or all stopped.
Stopped(cs) == {[c EXCEPT !.running = FALSE] : c \in cs}

InitPlatform ==
    /\ \E cs \in SUBSET {c \in ManagedContainers : c.env = "test" /\ c.slot = "blue"} :
          /\ Cardinality(cs) <= MaxContainers
          /\ containers \in {cs, Stopped(cs)}
    /\ platform \in {p \in Platforms : (\E c \in containers : c.running) => p.network}
    /\ stateFile = ReadableFile(EmptyProjectState)
    /\ imageStore = {}
    /\ images = {}
    /\ deploymentsLog = <<>>
    /\ repo = ClonedRepo(1)
    /\ requests = 0
    /\ IdleLibrary
    /\ nginxConf = [e \in Envs |-> NoConf]
    /\ recipeFile = FALSE
    /\ wf = [e \in Envs |-> IdleWf]
    /\ launches = Cardinality(ManagedContainers)
    /\ hist = [e \in Envs |-> [slot |-> "", id |-> NoId, prevSlot |-> "",
                                prevId |-> NoId, count |-> 0]]
    /\ op = NoOp

\* The label keys DeployTest and ApproveProd put on a container (newLabels).
NewLabelKeys ==
    {"reflow.managed", "reflow.project", "reflow.environment", "reflow.slot",
     "reflow.commit"}

\* appLabels of DestroyReflow: reflow.managed=true and reflow.type=project.
DestroyAppLabelKeys == {"reflow.managed", "reflow.type"}

\* FindContainersByLabels: the containers that carry every label of the filter.
FindByLabelKeys(keys) == {c \in containers : keys \subseteq NewLabelKeys}

\* Calls of DestroyReflow the environment can make fail (no plugin is
\* installed: the plugin stage finds nothing to do).
DestroyFaults == {"client", "list", "rmapp", "proxy", "network", "basedir"}

\* Mutant of NetworkRemoveErr: 'not found' counts as a failure.
NetworkRemoveErrStrict(present, inUse, daemonOk) == ~daemonOk \/ ~present \/ inUse

\* err != nil && !strings.Contains(err.Error(), "not found") after
\* NetworkRemove: the daemon refuses a network with running containers
\* attached and reports 'not found' for a network that does not exist.
NetworkRemoveErr(present, inUse, daemonOk) == ~daemonOk \/ (present /\ inUse)

\* The stages whose error text the returned error carries: every stage but
\* the last sets finalErr only when it is still nil, the deletion of the base
\* directory appends to it.
DestroyStageOrder == <<"apps", "proxy", "network">>
ReportedErrors(failed) ==
    LET idx == {i \in 1..Len(DestroyStageOrder) : DestroyStageOrder[i] \in failed}
    IN  (IF idx = {} THEN {}
         ELSE {DestroyStageOrder[CHOOSE i \in idx : \A j \in idx : i <= j]})
        \cup (failed \cap {"basedir"})

\* DestroyReflow(ctx, basePath, force = true).
DestroyReflow ==
    /\ \E faults \in {f \in SUBSET DestroyFaults :
                         "rmapp" \in f => FindByLabelKeys(DestroyAppLabelKeys) # {}} :
         LET found == FindByLabelKeys(DestroyAppLabelKeys)
             listed == IF "list" \in faults THEN {} ELSE found
             removedApps == IF "rmapp" \in faults THEN {} ELSE listed
             cs1 == StopAndRemove(listed, removedApps, {})
             proxy1 == IF "proxy" \in faults THEN platform.proxy ELSE "absent"
             inUse == proxy1 = "running" \/ \E c \in cs1 : c.running
             netErr == NetworkRemoveErr(platform.network, inUse, "network" \notin faults)
             failed == (faults \cap {"proxy", "basedir"})
                       \cup (IF "list" \in faults \/ removedApps # listed THEN {"apps"} ELSE {})
                       \cup (IF netErr THEN {"network"} ELSE {})
             res == OpResult("destroy", "", TRUE)
         IN  IF "client" \in faults THEN
                 /\ op' = [res EXCEPT !.faults = faults, !.failed = {"client"},
                                      !.reported = {"client"}]
                 /\ UNCHANGED <<containers, platform, stateFile, nginxConf, recipeFile>>
             ELSE
                 /\ op' = [res EXCEPT !.err = (failed # {}), !.faults = faults,
                                      !.failed = failed, !.reported = ReportedErrors(failed)]
                 /\ containers' = cs1
                 /\ IF "basedir" \in faults
                    THEN /\ platform' = [platform EXCEPT !.proxy = proxy1,
                                             !.network = platform.network /\ netErr]
                         /\ UNCHANGED <<stateFile, nginxConf, recipeFile>>
                    ELSE /\ platform' = [NoPlatform EXCEPT !.proxy = proxy1,
                                             !.network = platform.network /\ netErr]
                         /\ stateFile' = ReadableFile(EmptyProjectState)
                         /\ nginxConf' = [e \in Envs |-> NoConf]
                         /\ recipeFile' = FALSE
    /\ UNCHANGED <<images, wf, launches, hist, imageStore, projectDir, requests, library>>

\* The steps of 'reflow init', in order.
InitSteps == <<"git", "dirs", "config", "client", "network", "conf", "proxy">>
StepIndex(step) == CHOOSE i \in 1..Len(InitSteps) : InitSteps[i] = step

\* The step ran to its end: init did not return before or in it.
StepDone(step, failAt) == failAt = "none" \/ StepIndex(step) < StepIndex(failAt)

\* Mutant of CreateIfMissing: the file is written whether it exists or not.
CreateAlways(file, step, failAt, truncated) ==
    IF StepDone(step, failAt) THEN "default"
    ELSE IF failAt = step /\ truncated THEN "truncated"
    ELSE file

\* createDefaultGlobalConfig / createNginxDefaultConf: a file that exists is
\* left alone, a missing one is written.
CreateIfMissing(file, step, failAt, truncated) ==
    IF file # "absent" THEN file
    ELSE IF StepDone(step, failAt) THEN "default"
    ELSE IF failAt = step /\ truncated THEN "truncated"
    ELSE "absent"

\* setupNginxContainer: an existing container is started; otherwise the
\* image is pulled and the container created and started, and removed again
\* (Force: true) when the start fails.
SetupNginxContainer(proxy, failAt, leftover) ==
    IF StepDone("proxy", failAt) THEN "running"
    ELSE IF failAt = "proxy" /\ proxy = "absent" /\ leftover THEN "stopped"
    ELSE proxy

\* The init command.
InitReflow ==
    \E failAt \in Range(InitSteps) \cup {"none"}, truncated \in BOOLEAN,
       leftover \in BOOLEAN :
      /\ truncated => failAt \in {"config", "conf"}
      /\ leftover => failAt = "proxy"
      /\ platform' =
            [baseDir |-> platform.baseDir \/ StepDone("dirs", failAt),
             globalCfg |-> CreateIfMissing(platform.globalCfg, "config", failAt, truncated),
             defaultConf |-> CreateIfMissing(platform.defaultConf, "conf", failAt, truncated),
             network |-> platform.network \/ StepDone("network", failAt),
             proxy |-> SetupNginxContainer(platform.proxy, failAt, leftover)]
      /\ op' = [OpResult("init", "", failAt # "none") EXCEPT
                    !.faults = IF failAt = "none" THEN {} ELSE {failAt}]
      /\ UNCHANGED <<containers, images, stateFile, nginxConf, recipeFile, wf,
                     launches, hist, imageStore, projectDir, requests, library>>

NextPlatform ==
    \/ DestroyReflow
    \/ InitReflow

SpecPlatform == InitPlatform /\ [][NextPlatform]_vars

\* The container routes of the HTTP control plane.  The daemon also runs
\* containers reflow did not create: they carry no reflow label.
ForeignContainer ==
    [id |-> 9, name |-> <<"", "", "db">>, env |-> "", slot |-> "", commit |-> NoCommit,
     image |-> NoCommit, running |-> TRUE, managed |-> FALSE]

\* The ids a request to /api/v1/containers/{containerId} can name.
RequestIds == 1..9

InitRoutes ==
    /\ \E cs \in SUBSET (ManagedContainers \cup {ForeignContainer}) :
          /\ Cardinality(cs) <= MaxContainers
          /\ containers \in {cs, Stopped(cs)}
    /\ stateFile = ReadableFile(EmptyProjectState)
    /\ imageStore = {}
    /\ images = {}
    /\ deploymentsLog = <<>>
    /\ repo = ClonedRepo(1)
    /\ requests = 0
    /\ IdleLibrary
    /\ nginxConf = [e \in Envs |-> NoConf]
    /\ recipeFile = FALSE
    /\ wf = [e \in Envs |-> IdleWf]
    /\ launches = Cardinality(ManagedContainers) + 1
    /\ hist = [e \in Envs |-> [slot |-> "", id |-> NoId, prevSlot |-> "",
                                prevId |-> NoId, count |-> 0]]
    /\ op = NoOp
    /\ platform = InitializedPlatform

\* The container with the id, if the daemon has one.
ContainerById(id) == {c \in containers : c.id = id}

\* A container route: the daemon call on the container the request names;
\* the call fails when the daemon refuses it or has no such container.
ContainerRoute(name, id, daemonOk, after) ==
    LET found == ContainerById(id)
    IN  IF ~daemonOk \/ found = {} THEN
            /\ op' = OpResult(name, "", ~daemonOk \/ found = {})
            /\ UNCHANGED containers
        ELSE
            /\ containers' = (containers \ found) \cup after
            /\ op' = OpResult(name, "", FALSE)

\* POST /api/v1/containers/{containerId}/stop: StopContainer(containerID).
handleStopContainer ==
    /\ \E id \in RequestIds, daemonOk \in BOOLEAN :
         ContainerRoute("stop", id, daemonOk, Stopped(ContainerById(id)))
    /\ UNCHANGED <<images, stateFile, nginxConf, recipeFile, wf, launches, hist,
                   imageStore, platform, projectDir, requests, library>>

\* POST /api/v1/containers/{containerId}/start: StartContainer(containerID).
handleStartContainer ==
    /\ \E id \in RequestIds, daemonOk \in BOOLEAN :
         ContainerRoute("start", id, daemonOk,
                        {[c EXCEPT !.running = TRUE] : c \in ContainerById(id)})
    /\ UNCHANGED <<images, stateFile, nginxConf, recipeFile, wf, launches, hist,
                   imageStore, platform, projectDir, requests, library>>

\* POST /api/v1/containers/{containerId}/restart: RestartContainer(containerID).
handleRestartContainer ==
    /\ \E id \in RequestIds, daemonOk \in BOOLEAN :
         ContainerRoute("restart", id, daemonOk,
                        {[c EXCEPT !.running = TRUE] : c \in ContainerById(id)})
    /\ UNCHANGED <<images, stateFile, nginxConf, recipeFile, wf, launches, hist,
                   imageStore, platform, projectDir, requests, library>>

\* DELETE /api/v1/containers/{containerId}: RemoveContainer(containerID),
\* Force: false, so the daemon refuses a running container; a container that
\* does not exist is answered like a removed one.
handleDeleteContainer ==
    /\ \E id \in RequestIds, daemonOk \in BOOLEAN :
         LET found == ContainerById(id)
             refused == ~daemonOk \/ \E c \in found : c.running
         IN  IF found = {} THEN
                 /\ op' = OpResult("delete", "", ~daemonOk)
                 /\ UNCHANGED containers
             ELSE ContainerRoute("delete", id, ~refused, {})
    /\ UNCHANGED <<images, stateFile, nginxConf, recipeFile, wf, launches, hist,
                   imageStore, platform, projectDir, requests, library>>

NextRoutes ==
    \/ handleStopContainer
    \/ handleStartContainer
    \/ handleRestartContainer
    \/ handleDeleteContainer

SpecRoutes == InitRoutes /\ [][NextRoutes]_vars

\* 'reflow project stop' and 'reflow project start', one command at a time,
\* on any state file and any containers earlier commands can have left,
\* running or stopped.
InitStartStop ==
    /\ \E cs \in SUBSET ManagedContainers :
          /\ Cardinality(cs) <= MaxContainers
          /\ containers \in {cs, Stopped(cs)}
    /\ stateFile \in {ReadableFile(st) : st \in ProjectStates} \cup {CorruptFile}
    /\ imageStore = {}
    /\ images = {}
    /\ deploymentsLog = <<>>
    /\ repo = ClonedRepo(1)
    /\ requests = 0
    /\ IdleLibrary
    /\ nginxConf = [e \in Envs |-> NoConf]
    /\ recipeFile = FALSE
    /\ wf = [e \in Envs |-> IdleWf]
    /\ launches = Cardinality(ManagedContainers)
    /\ hist = [e \in Envs |-> [slot |-> "", id |-> NoId, prevSlot |-> "",
                                prevId |-> NoId, count |-> 0]]
    /\ op = NoOp
    /\ platform = InitializedPlatform

\* StopProjectEnv / StartProjectEnv up to the loop: load the state, return
\* when the environment has no active deployment, list the containers
\* labelled with the project, the environment and the active slot (the
\* commit label is not part of the filter).
ActiveSlotContainers(e) == FindBySlot(e, LoadProjectState.state[e].activeSlot)

\* StopProjectEnv(project, env).  StopContainer succeeds on a container that
\* is not running; the command fails when no stop succeeded.
StopProjectEnv(e) ==
    /\ op = NoOp
    /\ LET ld == LoadProjectState
           found == ActiveSlotContainers(e)
       IN  IF ld.err THEN
               /\ op' = [OpResult("stop", e, TRUE) EXCEPT !.faults = {"state"}]
               /\ UNCHANGED containers
           ELSE IF ld.state[e].activeCommit = NoCommit \/ ld.state[e].activeSlot = "" THEN
               /\ op' = OpResult("stop", e, FALSE)
               /\ UNCHANGED containers
           ELSE \E findOk \in BOOLEAN :
               IF ~findOk THEN
                   /\ op' = [OpResult("stop", e, TRUE) EXCEPT !.faults = {"find"}]
                   /\ UNCHANGED containers
               ELSE \E stoppedOk \in SUBSET found :
                   /\ containers' = (containers \ stoppedOk) \cup Stopped(stoppedOk)
                   /\ op' = OpResult("stop", e, found # {} /\ stoppedOk = {})
    /\ UNCHANGED <<images, stateFile, nginxConf, recipeFile, wf, launches, hist,
                   imageStore, platform, projectDir, requests, library>>

\* StartProjectEnv(project, env).  A running container counts as started
\* without a call; the command fails when none is running afterwards.
StartProjectEnv(e) ==
    /\ op = NoOp
    /\ LET ld == LoadProjectState
           found == ActiveSlotContainers(e)
           notRunning == {c \in found : ~c.running}
       IN  IF ld.err THEN
               /\ op' = [OpResult("start", e, TRUE) EXCEPT !.faults = {"state"}]
               /\ UNCHANGED containers
           ELSE IF ld.state[e].activeCommit = NoCommit \/ ld.state[e].activeSlot = "" THEN
               /\ op' = OpResult("start", e, FALSE)
               /\ UNCHANGED containers
           ELSE \E findOk \in BOOLEAN :
               IF ~findOk THEN
                   /\ op' = [OpResult("start", e, TRUE) EXCEPT !.faults = {"find"}]
                   /\ UNCHANGED containers
               ELSE \E startedOk \in SUBSET notRunning :
                   /\ containers' = (containers \ startedOk)
                                        \cup {[c EXCEPT !.running = TRUE] : c \in startedOk}
                   /\ op' = OpResult("start", e,
                                     found # {} /\ (found \ notRunning) \cup startedOk = {})
    /\ UNCHANGED <<images, stateFile, nginxConf, recipeFile, wf, launches, hist,
                   imageStore, platform, projectDir, requests, library>>

NextStartStop ==
    \/ \E e \in Envs : StopProjectEnv(e)
    \/ \E e \in Envs : StartProjectEnv(e)

SpecStartStop == InitStartStop /\ [][NextStartStop]_vars

\* Nothing of the installation exists.
AllGone(cs, p) == cs = {} /\ p = NoPlatform

\* C17 (destroy removes everything): after DestroyReflow with force and no
\* runtime error, no managed container exists, the proxy container and the
\* network are removed and the base directory is deleted.
C17_DestroyRemovesAll ==
    (op.name = "destroy" /\ op.faults = {}) => AllGone(containers, platform)

\* C18 (destroy reports every failure): DestroyReflow attempts every stage
\* whatever failed before, and its error reports every stage that failed.
C18_DestroyReportsAll ==
    (op.name = "destroy" /\ "client" \notin op.faults) =>
        /\ op.err <=> op.failed # {}
        /\ op.reported = op.failed

\* C19 (destroy is idempotent): DestroyReflow with force, run when managed
\* containers, proxy container, network and base directory are gone, returns
\* success and changes nothing.
C19_DestroyIdempotent ==
    (op.name = "destroy" /\ op.faults = {} /\ AllGone(op.containers, op.platform)) =>
        /\ ~op.err
        /\ AllGone(containers, platform)

C19_Witness ==
    /\ op.name = "destroy" /\ op.prev = "destroy" /\ op.faults = {}
    /\ AllGone(op.containers, op.platform)
    /\ ~op.err

\* C20 (idempotent init): a successful init leaves the directories, the
\* network and exactly one running proxy container; it does not overwrite an
\* existing config.yaml or 00-default.conf; and run on what a successful
\* init left it changes nothing.
C20_InitIdempotent ==
    (op.name = "init" /\ ~op.err) =>
        /\ platform.baseDir /\ platform.network /\ platform.proxy = "running"
        /\ platform.globalCfg # "absent" /\ platform.defaultConf # "absent"
        /\ op.platform.globalCfg # "absent" => platform.globalCfg = op.platform.globalCfg
        /\ op.platform.defaultConf # "absent" =>
              platform.defaultConf = op.platform.defaultConf
        /\ (op.platform.baseDir /\ op.platform.network /\ op.platform.proxy = "running"
            /\ op.platform.globalCfg # "absent" /\ op.platform.defaultConf # "absent")
           => platform = op.platform
        /\ containers = op.containers

C20_Witness ==
    /\ op.name = "init" /\ op.prev = "init" /\ ~op.err
    /\ op.platform.globalCfg = "edited"
    /\ platform = op.platform

-----------------------------------------------------------------------------
\* Slot choice, health gate, cancellation.

\* The slot a workflow of environment e has chosen, once it has chosen one.
TargetChosen(e) == wf[e].pc # "idle" /\ wf[e].inactiveSlot # ""

\* C11 (inactive-slot choice): a deployment targets green when the persisted
\* activeSlot of its environment is blue and blue when it is green, and the
\* first deployment of a never-deployed environment (empty activeSlot)
\* targets green, in DeployTest and in ApproveProd.
C11_InactiveSlotChoice ==
    \A e \in Envs :
        (TargetChosen(e) /\ wf[e].pre.state.ok) =>
            LET active == wf[e].pre.state.state[e].activeSlot
            IN  wf[e].inactiveSlot = IF active = "green" THEN "blue" ELSE "green"

\* The workflow of e has rewritten the site file of e or has gone on to the
\* reload.
ProxySwitchBegun(e) ==
    \/ wf[e].pc \in {"reload", "save"}
    \/ wf[e].reloaded
    \/ wf[e].pc # "idle" /\ nginxConf[e] # wf[e].pre.conf[e]

\* The health step of e returned the timeout error.
HealthTimedOut(e) == wf[e].pc \in {"defer", "done"} /\ wf[e].err = "health"

\* Probe runs with no success: every probe returned false or an error.
FailedRuns(n) ==
    {[i \in 1..n |-> r] : r \in {"unhealthy", "probe_err"}}

\* C12 (health gate): the site file of an environment is rewritten and nginx
\* reloaded onto a new container only after a probe of that container
\* succeeded; failed probes are retried until the probe window is over, and
\* a workflow whose probes all failed returns the health-timeout error, runs
\* the rollback and neither rewrites the site file nor reloads nor saves.
C12_HealthGate ==
    /\ \A e \in Envs :
          /\ ProxySwitchBegun(e) => wf[e].probed
          /\ HealthTimedOut(e) =>
                /\ RollbackRuns(wf[e])
                /\ ~wf[e].probed /\ ~wf[e].reloaded
                /\ nginxConf[e] = wf[e].pre.conf[e]
                /\ stateFile = wf[e].pre.state
    /\ \A k \in 0..(MaxProbes - 1) : \A run \in FailedRuns(k) :
          /\ HealthLoop(0, run) = "running"
          /\ HealthLoop(0, run \o <<"healthy">>) = "healthy"
    /\ \A run \in FailedRuns(MaxProbes) : HealthLoop(0, run) = "health"

C12_Witness ==
    /\ HealthTimedOut("test")
    /\ wf["test"].pc = "done"
    /\ hist["test"].count >= 1

\* Steps after the launch of the new container and before the state is saved.
AfterLaunchSteps == {"health", "proxy", "reload", "save"}

\* C13 (cancellation is a rollback): when the context is cancelled after the
\* new container was launched and before the state is saved, the workflow
\* returns an error, the new container is stopped and removed, and the
\* state file is unchanged.
C13_CancellationRollsBack ==
    \A e \in Envs :
        (wf[e].pc = "done" /\ wf[e].cancelledAt \in AfterLaunchSteps) =>
            /\ wf[e].err # ""
            /\ ~\E c \in containers : c.id = wf[e].newContainerID
            /\ stateFile = wf[e].pre.state

-----------------------------------------------------------------------------
\* Audit log.

\* The outcome an audit line records for a workflow that returned err.
TerminalOutcome(err) == IF err = "" THEN "success" ELSE "failure"

\* C21 (audit append-only): when a call of DeployTest or ApproveProd has
\* returned, deployments.log is longer than it was when the call started, the
\* lines it had are unchanged, and the outcome of its last line is the
\* terminal state of the call (success or failure).
C21_AuditGrows ==
    \A e \in Envs :
      wf[e].pc = "done" =>
        LET w == wf[e]
            n == Len(deploymentsLog)
        IN  /\ n > Len(w.pre.log)
            /\ SubSeq(deploymentsLog, 1, Len(w.pre.log)) = w.pre.log
            /\ deploymentsLog[n].outcome = TerminalOutcome(w.err)

-----------------------------------------------------------------------------
\* The HTTP control plane.

\* The environments whose workflow has been called and has not returned.
InFlight == {e \in Envs : wf[e].pc \notin {"idle", "done"}}

\* C22 (one deployment per project at a time): the control plane never has
\* two deployment workflows of the project in flight at once.
C22_OneWorkflowInFlight == Cardinality(InFlight) <= 1

-----------------------------------------------------------------------------
\* Source acquisition.

\* C23 (deploy without a revision deploys the latest commit): when DeployTest
\* called without a revision, or with "HEAD", has fetched, resolved and checked
\* out, the commit it resolved is the tip of the default branch as the clone
\* knows it after the fetch (the remote-tracking ref).
C23_HeadIsLatest ==
    (repo.last.rev.name \in {"", "HEAD"} /\ repo.last.err = "") => repo.last.hash = repo.origin

-----------------------------------------------------------------------------
\* Managed containers.

\* The containers the last operation stopped, started or removed.
ModifiedByOp == {c \in op.containers : c \notin containers}

\* C24 (only managed containers are modified): every container an operation
\* of the control surface stopped, started, restarted or removed carries the
\* label managed=true.
C24_OnlyManagedModified == \A c \in ModifiedByOp : c.managed

-----------------------------------------------------------------------------
\* Environment isolation.

\* The containers the site file of environment e names as its upstream.
UpstreamOf(e) ==
    {c \in containers : nginxConf[e].present /\ c.name = nginxConf[e].upstream}

\* C25 (environment isolation): in every state the site file of an
\* environment names as upstream no container labelled with the other
\* environment.
C25_EnvIsolation == \A e \in Envs : \A c \in UpstreamOf(e) : c.env = e

\* Both site files name a running container as upstream.
C25_Witness == \A e \in Envs : \E c \in UpstreamOf(e) : c.running

-----------------------------------------------------------------------------
\* Purge of the inactive slot.

\* The containers of the target slot that the purge of workflow e found and
\* did not remove.
PurgeLeftovers(e) ==
    {c \in FindBySlot(e, wf[e].inactiveSlot) : \E p \in wf[e].pre.containers : p.id = c.id}

\* C26 (purge errors abort before launch): a workflow goes on to launch its
\* new container only when the purge removed every container it found in the
\* target slot; when a stop or remove failed the workflow has returned an
\* error instead.
C26_PurgeErrorsAbort ==
    \A e \in Envs : wf[e].pc = "launch" => PurgeLeftovers(e) = {}

-----------------------------------------------------------------------------
\* Rollback.

\* The containers that existed when workflow e was called and still exist.
ExistedBefore(e) == {c \in containers : \E p \in wf[e].pre.containers : p.id = c.id}

\* C27 (rollback destroys only the container of the current attempt): the
\* deferred function of a workflow neither stops nor removes a container that
\* existed before the workflow's launch step.
C27_RollbackOnlyNew ==
    [][\A e \in Envs :
         (wf[e].pc = "defer" /\ wf'[e].pc = "done") =>
            \A c \in ExistedBefore(e) : c \in containers']_vars

-----------------------------------------------------------------------------
\* Slots.

\* C28 (a slot holds at most one container): whenever no workflow is in
\* flight, at most one managed container carries the labels of an
\* (environment, slot) pair.
C28_OneContainerPerSlot ==
    NoWorkflowInFlight =>
        \A e \in Envs : \A slot \in {"blue", "green"} : Cardinality(FindBySlot(e, slot)) <= 1

-----------------------------------------------------------------------------
\* Build failure.

\* DeployTest has returned the error of the image build.
BuildFailed == wf["test"].pc \in {"defer", "done"} /\ wf["test"].err = "build"

\* C29 (a build failure has no side effects): when the image build of
\* DeployTest fails, the workflow returns the build error with the
\* containers, the site files and the state file as they were when it was
\* called.
C29_BuildFailureNoSideEffects ==
    BuildFailed =>
        /\ containers = wf["test"].pre.containers
        /\ nginxConf = wf["test"].pre.conf
        /\ stateFile = wf["test"].pre.state

\* A build failed while the slot it targets held a container and a site file
\* was in place.
C29_Witness ==
    /\ BuildFailed
    /\ wf["test"].pc = "done"
    /\ FindBySlot("test", wf["test"].inactiveSlot) # {}
    /\ nginxConf["test"].present

-----------------------------------------------------------------------------
\* Recipe file.

-----------------------------------------------------------------------------
\* Cleanup error handling.

\* The containers that existed when the last command started and are gone.
RemovedByOp == {c \in op.containers : \A d \in containers : d.id # c.id}

\* The containers of the command's environment that were not the active one
\* of the state when the command started.
InactiveBefore ==
    {c \in op.containers :
        /\ c.env = op.env
        /\ \/ c.slot # stateFile.state[op.env].activeSlot
           \/ c.commit # stateFile.state[op.env].activeCommit}

\* The cleanup loaded the state, found an active deployment and listed the
\* containers: its loop ran.
CleanupLoopRan ==
    /\ op.name = "cleanup" /\ op.faults = {}
    /\ stateFile.state[op.env].activeCommit # NoCommit
    /\ stateFile.state[op.env].activeSlot # ""

\* C31 (cleanup error handling): CleanupProjectEnv processes every inactive
\* container whatever happened to the ones before it: each is removed or its
\* removal error is in the error returned; a failed stop alone is no error;
\* and the count returned is the number of containers removed.
C31_CleanupErrors ==
    op.name = "cleanup" =>
        /\ op.cleanedCount = Cardinality(RemovedByOp)
        /\ op.cleanupErrors # {} => op.err
        /\ CleanupLoopRan =>
              /\ \A c \in InactiveBefore : c \in RemovedByOp \/ c.id \in op.cleanupErrors
              /\ op.cleanupErrors = {c.id : c \in InactiveBefore \ RemovedByOp}
              /\ op.err <=> op.cleanupErrors # {}

\* A removal failed and a container later in the list was removed all the same.
C31_Witness ==
    /\ CleanupLoopRan
    /\ \E c \in RemovedByOp : \E id \in op.cleanupErrors : id < c.id

-----------------------------------------------------------------------------
\* Start and stop of an environment.

\* C32 (start/stop act on the active container only): every container that
\* StopProjectEnv or StartProjectEnv stopped or started carries the
\* environment, the active slot and the active commit of the state; nothing
\* is touched and no error returned when the environment was never deployed.
C32_StartStopActiveOnly ==
    (op.name \in {"stop", "start"} /\ stateFile.ok) =>
        /\ \A c \in ModifiedByOp :
              /\ c.env = op.env
              /\ c.slot = stateFile.state[op.env].activeSlot
              /\ c.commit = stateFile.state[op.env].activeCommit
        /\ stateFile.state[op.env].activeCommit = NoCommit =>
              (ModifiedByOp = {} /\ ~op.err)

-----------------------------------------------------------------------------
\* Persisted state.

\* An EnvironmentState is empty or names two different slots, with no
\* pending commit.
WellFormedEnvState(es) ==
    /\ es.pendingCommit = NoCommit
    /\ es.activeCommit # NoCommit =>
          /\ es.activeSlot \in {"blue", "green"}
          /\ es.inactiveSlot \in {"blue", "green"}
          /\ es.activeSlot # es.inactiveSlot

\* C33 (persisted slots differ): in every state file that DeployTest and
\* ApproveProd have written, each environment with an active commit has
\* activeSlot and inactiveSlot among the two slot values and different from
\* each other, and pendingCommit is empty.
C33_PersistedStateWellFormed ==
    stateFile.ok => \A e \in Envs : WellFormedEnvState(stateFile.state[e])

\* Both environments have been deployed, 'test' more than once.
C33_Witness ==
    /\ stateFile.ok
    /\ stateFile.state.prod.activeCommit # NoCommit
    /\ hist["test"].count >= 2

-----------------------------------------------------------------------------
\* Effective-domain resolution.

\* The first non-empty of the override, the configured domain and the
\* computed default <project>-<env>.<defaultDomain>; NoDomain if there is none.
FirstNonEmptyDomain(c) ==
    IF c.override # NoDomain THEN c.override
    ELSE IF c.domain # NoDomain THEN c.domain
    ELSE IF c.defaultDomain # NoDomain THEN <<"myblog", c.env>> \o c.defaultDomain
    ELSE NoDomain

MatchingHistory(c) ==
    SelectSeq(SortByTimestamp(SelectSeq(c.lines, LAMBDA l : l.parsed)),
              LAMBDA ev : /\ (c.envFilter = "" \/ EqualFold(ev.env, c.envFilter))
                          /\ (c.outcomeFilter = "" \/ EqualFold(ev.outcome, c.outcomeFilter)))

\* The offset and the limit the strings of the call stand for.
RequestedOffset(c) ==
    IF c.offsetStr.kind = "int" /\ c.offsetStr.value >= 0 THEN c.offsetStr.value ELSE 0

RequestedLimit(c) ==
    IF c.limitStr.kind = "int" /\ c.limitStr.value > 0 THEN c.limitStr.value ELSE 25

\* C36 (history listing): ListHistory returns the parsed events, newest
\* first, that match the env and outcome filters, cut to the entries
\* [offset, offset + limit) with the defaults 0 and 25 for a missing, non-numeric
\* or out-of-range value; an offset at or beyond the filtered length gives the
\* empty list, and the result never has more than limit entries.
C36_HistoryPage ==
    historyCall.called =>
        LET f == MatchingHistory(historyCall)
            offset == RequestedOffset(historyCall)
            limit == RequestedLimit(historyCall)
            last == IF limit >= Len(f) - offset THEN Len(f) ELSE offset + limit
        IN  /\ ~historyCall.panicked
            /\ \A i \in 1..(Len(f) - 1) : f[i].timestamp >= f[i + 1].timestamp
            /\ historyCall.events = IF offset >= Len(f) THEN <<>> ELSE SubSeq(f, offset + 1, last)
            /\ Len(historyCall.events) <= limit

\* The callers whose LogEvent wrote its entry and returned.
Logged == {c \in 1..MaxRequests : logCalls.pc[c] = "returned"}

\* The positions of the log where the entry of caller c stands as one
\* complete line.
LinesOf(c) ==
    {i \in 1..(Len(logCalls.file) - 1) :
        logCalls.file[i] = <<c, 0>> /\ logCalls.file[i + 1] = <<c, 1>>}

\* C37 (audit appends are atomic within the process): the entry of every
\* concurrent LogEvent call that wrote and returned stands in the log exactly
\* once as a complete newline-terminated line, and no bytes of another call
\* stand inside a line: every line end follows the beginning of its own entry.
C37_AppendsAtomic ==
    /\ \A c \in Logged : Cardinality(LinesOf(c)) = 1
    /\ \A i \in 1..Len(logCalls.file) :
           logCalls.file[i][2] = 1 => i > 1 /\ logCalls.file[i - 1] = <<logCalls.file[i][1], 0>>
    /\ \A i \in 1..(Len(logCalls.file) - 1) :
           logCalls.file[i][2] = 0 =>
               \/ logCalls.file[i + 1] = <<logCalls.file[i][1], 1>>
               \/ logCalls.pc[logCalls.file[i][1]] \in {"failed", "errored"}

\* Two calls overlapped (the second waited for the first's write to finish)
\* and both entries are in the log, the later caller's first.
C37_Witness ==
    /\ {1, 2} \subseteq Logged
    /\ LinesOf(2) = {1} /\ LinesOf(1) = {3}

\* C38 (no lost update between environments): when a DeployTest and an
\* ApproveProd of the project overlapped and both returned without error, the
\* state file holds the tuple the deploy wrote for test and the tuple the
\* approve wrote for prod.
C38_NoLostUpdate ==
    (Succeeded("test") /\ Succeeded("prod")) =>
        /\ stateFile.ok
        /\ \A e \in Envs : stateFile.state[e] = wf[e].projState[e]

\* C39 (cross-environment frame): while and after a workflow of one
\* environment runs alone, the other environment's tuple of the state file, its
\* site file and the containers labelled with it are as they were when the
\* workflow was called.
C39_CrossEnvFrame ==
    \A e \in Envs : \A o \in Envs \ {e} :
        wf[e].pc # "idle" =>
            /\ stateFile.state[o] = wf[e].pre.state.state[o]
            /\ nginxConf[o] = wf[e].pre.conf[o]
            /\ {c \in containers : c.env = o} = {c \in wf[e].pre.containers : c.env = o}

\* C40 (termination): every DeployTest and ApproveProd that was called
\* reaches a terminal outcome, and its health loop polls only while less than
\* healthTimeout has passed: after at most HealthTimeout / HealthInterval
\* probes that were not healthy or failed the loop is left.
C40_WorkflowTerminates ==
    /\ [](\A e \in Envs : wf[e].elapsed <= HealthTimeout)
    /\ \A e \in Envs : (wf[e].pc \notin {"idle", "done"}) ~> (wf[e].pc = "done")

\* A workflow has returned the health error after the last probe the deadline
\* allows.
C40_Witness ==
    \E e \in Envs :
        wf[e].pc = "done" /\ wf[e].err = "health" /\ wf[e].elapsed = HealthTimeout

====
